---- MODULE Spec2Model ----
(***************************************************************************)
(* A model of the wallet engine of namebasehq/hsd: the two advisory locks  *)
(* of a Wallet (fundLock, writeLock), coin selection and sendMTX, and the  *)
(* idempotency caches of the namebase HTTP handlers.                       *)
(*                                                                         *)
(* Every request is a process p \in Procs that runs one wallet operation   *)
(* at a time; pc[p] is the await point the operation is suspended at.      *)
(* A step of the model is the code that runs between two await points.     *)
(***************************************************************************)
EXTENDS Integers, Sequences, FiniteSets, TLC

\* Bounds of the model.
NumProcs == 2
NumCoins == 2
NumKeys == 2
NumDomains == 3
MaxOutputs == 3
MaxLimit == 4

Procs == 1..NumProcs
Coins == 1..NumCoins
Keys == 1..NumKeys

VARIABLES
  pc,       \* pc[p]: the await point process p is suspended at ("idle": no call)
  op,       \* op[p]: the wallet call or HTTP handler p is running
  asked,    \* asked[p]: the idempotency keys of p's request
  req,      \* req[p]: the bids (idempotency keys) p's call still has to build
  got,      \* got[p]: what the cache lookup of p's request found, by key
  mtx,      \* mtx[p]: the MTX of p's call: who built it, its input coins, the keys of its outputs
  aborted,  \* aborted[p]: options.signal.aborted of p's request
  early,    \* history: the signal of p's call was raised before the MTX reached sendMTX
  sent,     \* history: how far sendMTX got in p's call: "no" | "stored" | "sent"
  err,      \* err[p]: "none" while p's call runs normally, else the error thrown; when idle, how the last call ended
  lk,       \* lk.fund, lk.write: the two bmutex Locks; lk.held[p]: locks p holds, in acquisition order
  credits,  \* credits[c]: "unspent" | "spent", the spent flag of the credit of coin c
  wtxs,     \* history: the transactions sendMTX has recorded in the wallet
  mempool,  \* the transactions handed to the node
  wrote,    \* history: the last write to a wallet store, with the locks its writer held
  sendBidResults, \* the bid cache: idempotency key -> processed bid (its transaction)
  openCache,      \* the open cache of withOpenCache: idempotency key -> MTX
  inflight,       \* the keys whose withOpenCache producer is running
  ret,      \* history: ret[k]: the result last returned for key k
  raced,    \* history: raced[k]: two requests for key k have been in flight at once
  bdb,                  \* the persisted credits: bdb[c] is "none" or the credit of coin c
  cachedCredits,        \* CachedTXDB.cachedCredits: coin -> credit ("none": no entry)
  cachedCoinsByAddress, \* CachedTXDB.cachedCoinsByAddress: account -> coins
  batch,                \* batch[b]: a CachedBatch: its state, its ops, and the puts of its bdb batch
  opening,              \* the await point CachedTXDB.open is at
  allCredits,           \* history: the credits _loadCredits read from the store
  limit,                \* the limit handed to createBatch / createStrictBatch
  domainOutputMap,      \* the Map handed to them: its entries [name, outputs] in insertion order
  out,                  \* what the call did: the function, the order it took the entries in, its result
  request,              \* a batch request: its kind and its items, each with what processing it yields
  job,                  \* the request's progress: its stage, the MTX made, the errors reported
  http,                 \* a request to a caching batch handler: its stage, its items, what the cache had
  sendResults,          \* sendRevealResults / sendFinishResults: the entries [key, items]
  wdbHeight,            \* this.wdb.height: the height of the wallet's chain tip
  ns,                   \* the NameState the wallet has of the name (NoName: it has none)
  status,               \* what wdb.getNameStatus gives for the name: the chain's NameState
  nameCredits,          \* the credits of the wallet that carry the name, by outpoint
  blinds,               \* the BlindStore: the blinds that txdb.getBlind finds
  receive,              \* the receive depth of the account: its current receive address
  built                 \* what the last builder call gave: its outputs, inputs, or its error

cache == <<sendBidResults, openCache, inflight, ret, raced>>
wallet == <<pc, op, asked, req, got, mtx, aborted, early, sent, err,
            lk, credits, wtxs, mempool, wrote>>
txdb == <<bdb, cachedCredits, cachedCoinsByAddress, batch, opening, allCredits>>
planner == <<limit, domainOutputMap, out>>
maker == <<request, job>>
handler == <<http, sendResults>>
auction == <<wdbHeight, ns, status, nameCredits, blinds, receive, built>>
rest == <<handler, auction>>
ext == <<txdb, planner, maker, rest>>
nodb == <<wallet, cache, planner, maker, rest>>
noplanner == <<wallet, cache, txdb, maker, rest>>
nomaker == <<wallet, cache, txdb, planner, rest>>
vars == <<pc, op, asked, req, got, mtx, aborted, early, sent, err,
          lk, credits, wtxs, mempool, wrote,
          sendBidResults, openCache, inflight, ret, raced,
          bdb, cachedCredits, cachedCoinsByAddress, batch, opening, allCredits,
          limit, domainOutputMap, out, request, job,
          http, sendResults,
          wdbHeight, ns, status, nameCredits, blinds, receive, built>>

(***************************************************************************)
(* bmutex Lock, as Wallet uses it: lock() takes the lock when it is free   *)
(* and queues the caller otherwise; unlock() hands the lock to the oldest  *)
(* queued caller.                                                          *)
(***************************************************************************)
Lock == [holder |-> {}, jobs |-> <<>>]

Holds(p, n) == lk[n].holder = {p}

Waits(p, n) == \E i \in 1..Len(lk[n].jobs) : lk[n].jobs[i] = p

\* `await this.<n>Lock.lock()` called by p, on lock state L.
Acquire(L, p, n) ==
  IF L[n].holder = {}
    THEN [L EXCEPT ![n].holder = {p}, !.held[p] = Append(@, n)]
    ELSE [L EXCEPT ![n].jobs = Append(@, p)]

Without(s, n) == SelectSeq(s, LAMBDA x : x # n)

\* An unlock that is never called.
ReleaseNever(L, p, n) == L

\* `unlock()` of lock n called by its holder p, on lock state L.
Release(L, p, n) ==
  IF L[n].jobs = <<>>
    THEN [L EXCEPT ![n].holder = {}, !.held[p] = Without(@, n)]
    ELSE LET q == Head(L[n].jobs)
         IN  [L EXCEPT ![n].holder = {q}, ![n].jobs = Tail(@),
                       !.held[p] = Without(@, n), !.held[q] = Append(@, n)]

\* new MTX()
NewMTX == [by |-> {}, ins |-> {}, keys |-> {}]

\* mtx.toTX(): the transaction of MTX m, named by its builder, its inputs and its outputs' keys.
toTX(m) == [by |-> m.by, ins |-> m.ins, keys |-> m.keys]

\* A cache with no entry, or a lookup that found nothing.
Nothing == <<>>

\* cache.set(k, v)
Put(c, k, v) == [j \in DOMAIN c \cup {k} |-> IF j = k THEN v ELSE c[j]]

\* A lookup that never hits.
LookupMiss(c, a) == Nothing

\* cache.get(k) for each key k of a: the hits.
Lookup(c, a) == [k \in a \cap DOMAIN c |-> c[k]]

\* No store has been written yet.
NoWrite == [store |-> "none", via |-> "none", write |-> FALSE, fund |-> FALSE]

InitWallet ==
  /\ pc = [p \in Procs |-> "idle"]
  /\ op = [p \in Procs |-> "none"]
  /\ asked = [p \in Procs |-> {}]
  /\ req = [p \in Procs |-> {}]
  /\ got = [p \in Procs |-> Nothing]
  /\ mtx = [p \in Procs |-> NewMTX]
  /\ aborted = [p \in Procs |-> FALSE]
  /\ early = [p \in Procs |-> FALSE]
  /\ sent = [p \in Procs |-> "no"]
  /\ err = [p \in Procs |-> "none"]
  /\ lk = [fund |-> Lock, write |-> Lock, held |-> [p \in Procs |-> <<>>]]
  /\ credits = [c \in Coins |-> "unspent"]
  /\ wtxs = {}
  /\ mempool = {}
  /\ wrote = NoWrite

InitCache ==
  /\ sendBidResults = Nothing
  /\ openCache = Nothing
  /\ inflight = {}
  /\ ret = Nothing
  /\ raced = [k \in Keys |-> FALSE]

\* The accounts of the wallet: the default account and one more.
Accounts == 0..1

\* (await this.getPath(coin)).account
getPath(c) == [account |-> c % 2]

\* The CachedBatch objects: batch 0 is the one of _loadCredits, batch 1 the one of the
\* wallet's current write (Wallet.add writes the store under writeLock, one call at a time).
Batches == 0..1

\* No batch, or a batch nothing was added to.
NewBatch == [st |-> "none", ops |-> <<>>, puts |-> <<>>]

\* The credit records: the spent flag of a credit, "none" where there is no credit.
Credit == {"unspent", "spent"}

\* new CachedTXDB(wdb, wid): both maps are empty.
CachedTXDB ==
  /\ cachedCredits = [c \in Coins |-> "none"]
  /\ cachedCoinsByAddress = [a \in Accounts |-> {}]
  /\ batch = [b \in Batches |-> NewBatch]
  /\ opening = "closed"
  /\ allCredits = {}

\* A store with no credit.
EmptyStore == [c \in Coins |-> "none"]

\* No call of the batch functions.
NoCall ==
  /\ limit = 0
  /\ domainOutputMap = <<>>
  /\ out = [fn |-> "none"]

\* A request nothing has been done for yet.
NewJob == [stage |-> "new"]

\* No batch request.
NoRequest ==
  /\ request = [kind |-> "none", items |-> <<>>]
  /\ job = NewJob

\* No request is at a caching batch handler; the caches start empty.
NoHandler ==
  /\ http = [stage |-> "none"]
  /\ sendResults = {}

\* No name is looked at: the wallet has no name state and no credit with a name.
NoNames ==
  /\ wdbHeight = 0
  /\ ns = "none"
  /\ status = "none"
  /\ nameCredits = <<>>
  /\ blinds = {}
  /\ receive = 0
  /\ built = [fn |-> "none"]

NoRest == NoHandler /\ NoNames

Init ==
  /\ InitWallet /\ InitCache /\ CachedTXDB /\ bdb = EmptyStore /\ NoCall /\ NoRequest
  /\ NoRest

\* A new request: p leaves "idle" for the first await point of call o.
Begin(p, o, at) ==
  /\ pc[p] = "idle"
  /\ pc' = [pc EXCEPT ![p] = at]
  /\ op' = [op EXCEPT ![p] = o]
  /\ err' = [err EXCEPT ![p] = "none"]
  /\ UNCHANGED <<aborted, early, sent>>

\* A call that has no request keys and builds no MTX of its own.
Plain == UNCHANGED <<asked, req, got, mtx>>

\* The call of p returns (e = "ok") or throws e, and its request is gone.
End(p, e) ==
  /\ pc' = [pc EXCEPT ![p] = "idle"]
  /\ op' = [op EXCEPT ![p] = "none"]
  /\ asked' = [asked EXCEPT ![p] = {}]
  /\ req' = [req EXCEPT ![p] = {}]
  /\ got' = [got EXCEPT ![p] = Nothing]
  /\ mtx' = [mtx EXCEPT ![p] = NewMTX]
  /\ aborted' = [aborted EXCEPT ![p] = FALSE]
  /\ early' = [early EXCEPT ![p] = FALSE]
  /\ sent' = [sent EXCEPT ![p] = "no"]
  /\ err' = [err EXCEPT ![p] = e]

\* p moves on to await point `at` within its call.
Step(p, at) ==
  /\ pc' = [pc EXCEPT ![p] = at]
  /\ UNCHANGED <<op, asked, got, aborted, early>>

\* A step that only moves on.
Goto(p, at) == Step(p, at) /\ UNCHANGED <<req, mtx, sent, err>>

\* A write to one of the wallet's stores by p, recorded with the locks p holds in L.
Wrote(L, p, store, via) ==
  [store |-> store, via |-> via,
   write |-> L.write.holder = {p}, fund |-> L.fund.holder = {p}]

(***************************************************************************)
(* Wallet.lock; Wallet.destroy, Wallet.migrateChange and util.backupWallet *)
(* take and release the two locks in the same way.                         *)
(***************************************************************************)
lock(p) ==
  \/ /\ Begin(p, "lock", "lock_fund") /\ Plain
     /\ lk' = Acquire(lk, p, "write")
     /\ UNCHANGED <<credits, wtxs, ext, mempool, wrote, cache>>
  \/ /\ pc[p] = "lock_fund" /\ Holds(p, "write")
     /\ lk' = Acquire(lk, p, "fund")
     /\ Goto(p, "lock_body")
     /\ UNCHANGED <<credits, wtxs, ext, mempool, wrote, cache>>
  \/ /\ pc[p] = "lock_body" /\ Holds(p, "fund")
     /\ lk' = Release(Release(lk, p, "fund"), p, "write")
     /\ End(p, "ok")
     /\ UNCHANGED <<credits, wtxs, ext, mempool, wrote, cache>>

(***************************************************************************)
(* Wallet.createKey: derive a key under writeLock.                         *)
(***************************************************************************)
createKey(p) ==
  \/ /\ Begin(p, "createKey", "key_body") /\ Plain
     /\ lk' = Acquire(lk, p, "write")
     /\ UNCHANGED <<credits, wtxs, ext, mempool, wrote, cache>>
  \/ /\ pc[p] = "key_body" /\ Holds(p, "write")
     /\ lk' = Release(lk, p, "write")
     /\ End(p, "ok")
     /\ UNCHANGED <<credits, wtxs, ext, mempool, wrote, cache>>

\* A coin selection that does not skip spent credits.
AvailableSpent == Coins

\* Wallet.getSmartCoins: the credits that are not spent.
Available == {c \in Coins : credits[c] = "unspent"}

\* Wallet.fill: mtx.fund selects an input among the available coins, or throws.
fill(p, m) ==
  /\ Available # {}
  /\ \E c \in Available : m = [mtx EXCEPT ![p].ins = {c}, ![p].by = {p}]

(***************************************************************************)
(* Wallet.fund (force not set): fundLock, then writeLock, then fill; the   *)
(* funded MTX goes back to the caller.                                     *)
(***************************************************************************)
fund(p) ==
  \/ /\ Begin(p, "fund", "fund_write") /\ Plain
     /\ lk' = Acquire(lk, p, "fund")
     /\ UNCHANGED <<credits, wtxs, ext, mempool, wrote, cache>>
  \/ /\ pc[p] = "fund_write" /\ Holds(p, "fund")
     /\ lk' = Acquire(lk, p, "write")
     /\ Goto(p, "fund_fill")
     /\ UNCHANGED <<credits, wtxs, ext, mempool, wrote, cache>>
  \/ /\ pc[p] = "fund_fill" /\ Holds(p, "write")
     /\ lk' = Release(Release(lk, p, "write"), p, "fund")
     /\ End(p, IF Available = {} THEN "funds" ELSE "ok")
     /\ UNCHANGED <<credits, wtxs, ext, mempool, wrote, cache>>

\* The await points inside Wallet.sendMTX.
MtxPcs == {"mtx_sign", "mtx_add", "mtx_send", "mtx_ret"}

\* A check that never throws.
checkAbortNever(p) == FALSE

\* checkAbort(options.signal) throws when the signal of p's request is raised.
checkAbort(p) == aborted[p]

\* How a call that reached the end of sendMTX ends.
Outcome(p) == IF err[p] = "none" THEN "ok" ELSE err[p]

(***************************************************************************)
(* Wallet.send, with _send, createTX and fund(mtx, options, true): the     *)
(* whole call runs under fundLock, and fill runs under writeLock as well.  *)
(***************************************************************************)
send(p) ==
  \/ /\ Begin(p, "send", "send_tx") /\ Plain
     /\ lk' = Acquire(lk, p, "fund")
     /\ UNCHANGED <<credits, wtxs, ext, mempool, wrote, cache>>
  \/ /\ pc[p] = "send_tx" /\ Holds(p, "fund")
     /\ lk' = Acquire(lk, p, "write")
     /\ Goto(p, "send_fill")
     /\ UNCHANGED <<credits, wtxs, ext, mempool, wrote, cache>>
  \/ /\ pc[p] = "send_fill" /\ Holds(p, "write")
     /\ \/ /\ fill(p, mtx')
           /\ lk' = Release(lk, p, "write")
           /\ Step(p, "send_check")
           /\ UNCHANGED <<req, sent, err>>
        \/ /\ Available = {}
           /\ lk' = Release(Release(lk, p, "write"), p, "fund")
           /\ End(p, "funds")
     /\ UNCHANGED <<credits, wtxs, ext, mempool, wrote, cache>>
  \/ /\ pc[p] = "send_check"
     /\ IF checkAbort(p)
          THEN lk' = Release(lk, p, "fund") /\ End(p, "abort")
          ELSE lk' = lk /\ Goto(p, "mtx_sign")
     /\ UNCHANGED <<credits, wtxs, ext, mempool, wrote, cache>>
  \/ /\ pc[p] = "mtx_ret" /\ op[p] = "send"
     /\ lk' = Release(lk, p, "fund")
     /\ End(p, Outcome(p))
     /\ UNCHANGED <<credits, wtxs, ext, mempool, wrote, cache>>

\* The first bid of the array not yet built.
firstBid(p) == CHOOSE k \in req[p] : \A j \in req[p] : k <= j

\* Where _createBid goes once it has pushed the output of one more bid.
AfterBid(p) == IF req[p] \ {firstBid(p)} = {} THEN "bid_fill" ELSE "bid_make"

\* Wallet.generateBlind: txdb.saveBlind writes the blind of the bid to the blind store.
generateBlind(L, p) == Wrote(L, p, "blind", "generateBlind")

(***************************************************************************)
(* Wallet._createBid, with makeBatchBid and processBid, called with        *)
(* fundLock held: the first bid goes to the current receive address, every *)
(* later bid derives one with createReceive (createKey: writeLock); each   *)
(* bid saves its blind; then fill selects the inputs.                      *)
(***************************************************************************)
createBid(p) ==
  \/ /\ pc[p] = "bid_make" /\ Holds(p, "fund")
     /\ IF mtx[p].keys = {}
          THEN /\ wrote' = generateBlind(lk, p)
               /\ mtx' = [mtx EXCEPT ![p].keys = @ \cup {firstBid(p)}]
               /\ req' = [req EXCEPT ![p] = @ \ {firstBid(p)}]
               /\ lk' = lk
               /\ Step(p, AfterBid(p))
          ELSE /\ lk' = Acquire(lk, p, "write")
               /\ Step(p, "bid_recv")
               /\ UNCHANGED <<req, mtx, wrote>>
     /\ UNCHANGED <<sent, err, credits, wtxs, ext, mempool, cache>>
  \/ /\ pc[p] = "bid_recv" /\ Holds(p, "write")
     /\ lk' = Release(lk, p, "write")
     /\ wrote' = generateBlind(Release(lk, p, "write"), p)
     /\ mtx' = [mtx EXCEPT ![p].keys = @ \cup {firstBid(p)}]
     /\ req' = [req EXCEPT ![p] = @ \ {firstBid(p)}]
     /\ Step(p, AfterBid(p))
     /\ UNCHANGED <<sent, err, credits, wtxs, ext, mempool, cache>>
  \/ /\ pc[p] = "bid_fill"
     /\ \/ fill(p, mtx') /\ err' = err
        \/ Available = {} /\ mtx' = mtx /\ err' = [err EXCEPT ![p] = "funds"]
     /\ Step(p, "built")
     /\ UNCHANGED <<req, sent, lk, credits, wtxs, ext, mempool, wrote, cache>>

\* The calls that build and send under one hold of fundLock.
SendOps == {"send", "sendBatchBid"}

(***************************************************************************)
(* Wallet.sendBatchBid with _sendBatchBid: _createBid, checkAbort and      *)
(* sendMTX under fundLock.                                                 *)
(***************************************************************************)
sendBatchBid(p) ==
  \/ /\ Begin(p, "sendBatchBid", "bid_make")
     /\ \E b \in SUBSET Keys \ {{}} : req' = [req EXCEPT ![p] = b]
     /\ lk' = Acquire(lk, p, "fund")
     /\ UNCHANGED <<asked, got, mtx, credits, wtxs, ext, mempool, wrote, cache>>
  \/ /\ pc[p] = "built" /\ op[p] = "sendBatchBid"
     /\ IF err[p] # "none"
          THEN lk' = Release(lk, p, "fund") /\ End(p, err[p])
          ELSE IF checkAbort(p)
                 THEN lk' = Release(lk, p, "fund") /\ End(p, "abort")
                 ELSE lk' = lk /\ Goto(p, "mtx_sign")
     /\ UNCHANGED <<credits, wtxs, ext, mempool, wrote, cache>>
  \/ /\ pc[p] = "mtx_ret" /\ op[p] = "sendBatchBid"
     /\ lk' = Release(lk, p, "fund")
     /\ End(p, Outcome(p))
     /\ UNCHANGED <<credits, wtxs, ext, mempool, wrote, cache>>

(***************************************************************************)
(* Wallet.sendMTX: sign, wdb.addTX (which enters Wallet.add), wdb.send.    *)
(* Each of sign and wdb.send may throw.                                    *)
(***************************************************************************)
sendMTX(p) ==
  \/ /\ pc[p] = "mtx_sign"
     /\ \/ /\ lk' = Acquire(lk, p, "write")
           /\ Step(p, "mtx_add")
           /\ err' = err
        \/ /\ lk' = lk
           /\ Step(p, "mtx_ret")
           /\ err' = [err EXCEPT ![p] = "sign"]
     /\ UNCHANGED <<req, mtx, sent, credits, wtxs, ext, mempool, wrote, cache>>
  \/ /\ pc[p] = "mtx_send"
     /\ \/ /\ mempool' = mempool \cup {toTX(mtx[p])}
           /\ sent' = [sent EXCEPT ![p] = "sent"]
           /\ err' = err
        \/ /\ err' = [err EXCEPT ![p] = "send"]
           /\ UNCHANGED <<mempool, sent>>
     /\ Step(p, "mtx_ret")
     /\ UNCHANGED <<req, mtx, lk, credits, wtxs, ext, wrote, cache>>

\* txdb.add, as far as coin selection sees it: the credits the inputs spend are marked spent.
spend(m) == [c \in Coins |-> IF c \in m.ins THEN "spent" ELSE credits[c]]

(***************************************************************************)
(* Wallet.add with _add, entered from wdb.addTX: under writeLock, txdb.add *)
(* records the transaction and marks the credits it spends.                *)
(***************************************************************************)
add(p) ==
  /\ pc[p] = "mtx_add" /\ Holds(p, "write")
  /\ credits' = spend(mtx[p])
  /\ wtxs' = wtxs \cup {toTX(mtx[p])}
  /\ wrote' = Wrote(lk, p, "credit", "add")
  /\ sent' = [sent EXCEPT ![p] = "stored"]
  /\ lk' = Release(lk, p, "write")
  /\ Step(p, "mtx_send")
  /\ UNCHANGED <<req, mtx, err, mempool, cache, ext>>

(***************************************************************************)
(* Wallet.saveBlind, as util.restoreWallet calls it: txdb.saveBlind with   *)
(* no lock taken.                                                          *)
(***************************************************************************)
saveBlind(p) ==
  /\ pc[p] = "idle"
  /\ wrote' = Wrote(lk, p, "blind", "saveBlind")
  /\ UNCHANGED <<pc, op, asked, req, got, mtx, aborted, early, sent, err,
                 lk, credits, wtxs, ext, mempool, cache>>

(***************************************************************************)
(* The client of p's request goes away: res.closed, which options.signal   *)
(* reads, becomes true and stays true.                                     *)
(***************************************************************************)
Close(p) ==
  /\ pc[p] # "idle" /\ op[p] \in SendOps /\ ~aborted[p]
  /\ aborted' = [aborted EXCEPT ![p] = TRUE]
  /\ early' = [early EXCEPT ![p] = pc[p] \notin MtxPcs]
  /\ UNCHANGED <<pc, op, asked, req, got, mtx, sent, err,
                 lk, credits, wtxs, ext, mempool, wrote, cache>>

Next ==
  \E p \in Procs :
    \/ lock(p)
    \/ createKey(p)
    \/ fund(p)
    \/ send(p)
    \/ sendBatchBid(p)
    \/ createBid(p)
    \/ sendMTX(p)
    \/ add(p)
    \/ saveBlind(p)
    \/ Close(p)

Spec == Init /\ [][Next]_vars

\* The requests of the send route alone: Wallet.send calls, and clients that go away.
NextSend ==
  \E p \in Procs :
    \/ send(p)
    \/ sendMTX(p)
    \/ add(p)
    \/ Close(p)

SpecSend == Init /\ [][NextSend]_vars

\* cache.set(k, f[k]) for each key k of f.
PutAll(c, f) == [j \in DOMAIN c \cup DOMAIN f |-> IF j \in DOMAIN f THEN f[j] ELSE c[j]]

\* A request with keys a arrives at p: a key is raced once two requests for it are in flight together.
Arrive(p, a) ==
  /\ asked' = [asked EXCEPT ![p] = a]
  /\ raced' = [k \in Keys |->
                 raced[k] \/ (k \in a /\ \E q \in Procs \ {p} : pc[q] # "idle" /\ k \in asked[q])]

\* util.postProcessBatchBids: one processed bid for each BID output of the transaction, under the key of the output.
postProcessBatchBids(m) == [k \in m.keys |-> toTX(m)]

\* The processedBids of the response of p: the bids found in the cache, then the bids just processed.
Response(p) ==
  [k \in asked[p] |-> IF k \in DOMAIN got[p] THEN got[p][k] ELSE toTX(mtx[p])]

(***************************************************************************)
(* handleBatchBid: look every bid up in sendBidResults; build the misses   *)
(* with createBatchBid (fundLock around _createBid), send with sendMTX,    *)
(* then store each processed bid in the cache and respond.                 *)
(***************************************************************************)
handleBatchBid(p) ==
  \/ /\ \E a \in SUBSET Keys \ {{}} :
          /\ Arrive(p, a)
          /\ got' = [got EXCEPT ![p] = Lookup(sendBidResults, a)]
          /\ req' = [req EXCEPT ![p] = a \ DOMAIN sendBidResults]
          /\ IF a \subseteq DOMAIN sendBidResults
               THEN Begin(p, "handleBatchBid", "resp") /\ lk' = lk
               ELSE Begin(p, "handleBatchBid", "bid_make") /\ lk' = Acquire(lk, p, "fund")
     /\ UNCHANGED <<mtx, credits, wtxs, ext, mempool, wrote, sendBidResults, openCache, inflight, ret>>
  \/ /\ pc[p] = "built" /\ op[p] = "handleBatchBid"
     /\ lk' = Release(lk, p, "fund")
     /\ IF err[p] # "none" THEN End(p, err[p]) ELSE Goto(p, "mtx_sign")
     /\ UNCHANGED <<credits, wtxs, ext, mempool, wrote, cache>>
  \/ /\ pc[p] = "mtx_ret" /\ op[p] = "handleBatchBid"
     /\ IF err[p] # "none"
          THEN End(p, err[p]) /\ sendBidResults' = sendBidResults
          ELSE /\ sendBidResults' = PutAll(sendBidResults, postProcessBatchBids(mtx[p]))
               /\ Goto(p, "resp")
     /\ UNCHANGED <<lk, credits, wtxs, ext, mempool, wrote, openCache, inflight, ret, raced>>
  \/ /\ pc[p] = "resp" /\ op[p] = "handleBatchBid"
     /\ ret' = PutAll(ret, Response(p))
     /\ End(p, "ok")
     /\ UNCHANGED <<lk, credits, wtxs, ext, mempool, wrote, sendBidResults, openCache, inflight, raced>>

\* The key of the request of p.
KeyOf(p) == CHOOSE k \in asked[p] : TRUE

\* with_cache(key, producer): a completed result is stored under the key.
completed(k) == k \in DOMAIN openCache

\* with_cache(key, producer): a producer is running for the key, and its callers share its result.
shared(k) == k \in inflight

\* with_cache(key, producer): the result m of the producer is installed under the key.
install(k, m) == Put(openCache, k, m)

(***************************************************************************)
(* handleOpenWithCache: withOpenCache(key, createOpen) and then sendMTX of *)
(* the MTX it returned.  withOpenCache returns the stored MTX of the key,  *)
(* or joins the producer in flight for the key, or runs createOpen         *)
(* (fundLock around fill) and installs the MTX it returns.                 *)
(***************************************************************************)
handleOpenWithCache(p) ==
  \/ /\ \E k \in Keys :
          /\ Arrive(p, {k})
          /\ IF completed(k)
               THEN /\ Begin(p, "handleOpenWithCache", "mtx_sign")
                    /\ got' = [got EXCEPT ![p] = Lookup(openCache, {k})]
                    /\ mtx' = [mtx EXCEPT ![p] = openCache[k]]
                    /\ UNCHANGED <<lk, inflight>>
               ELSE IF shared(k)
                      THEN /\ Begin(p, "handleOpenWithCache", "open_wait")
                           /\ UNCHANGED <<got, mtx, lk, inflight>>
                      ELSE /\ Begin(p, "handleOpenWithCache", "open_fill")
                           /\ inflight' = inflight \cup {k}
                           /\ lk' = Acquire(lk, p, "fund")
                           /\ UNCHANGED <<got, mtx>>
     /\ UNCHANGED <<req, credits, wtxs, ext, mempool, wrote, sendBidResults, openCache, ret>>
  \/ /\ pc[p] = "open_wait" /\ ~shared(KeyOf(p))
     /\ IF completed(KeyOf(p))
          THEN /\ mtx' = [mtx EXCEPT ![p] = openCache[KeyOf(p)]]
               /\ Step(p, "mtx_sign")
               /\ UNCHANGED <<req, sent, err>>
          ELSE End(p, "funds")
     /\ UNCHANGED <<lk, credits, wtxs, ext, mempool, wrote, cache>>
  \/ /\ pc[p] = "open_fill" /\ Holds(p, "fund")
     /\ lk' = Release(lk, p, "fund")
     /\ inflight' = inflight \ {KeyOf(p)}
     /\ \/ /\ fill(p, mtx')
           /\ openCache' = install(KeyOf(p), mtx'[p])
           /\ Step(p, "mtx_sign")
           /\ UNCHANGED <<req, sent, err>>
        \/ /\ Available = {}
           /\ openCache' = openCache
           /\ End(p, "funds")
     /\ UNCHANGED <<credits, wtxs, ext, mempool, wrote, sendBidResults, ret, raced>>
  \/ /\ pc[p] = "mtx_ret" /\ op[p] = "handleOpenWithCache"
     /\ ret' = IF err[p] = "none" THEN Put(ret, KeyOf(p), toTX(mtx[p])) ELSE ret
     /\ End(p, Outcome(p))
     /\ UNCHANGED <<lk, credits, wtxs, ext, mempool, wrote, sendBidResults, openCache, inflight, raced>>

NextBid ==
  \E p \in Procs :
    \/ handleBatchBid(p)
    \/ createBid(p)
    \/ sendMTX(p)
    \/ add(p)

SpecBid == Init /\ [][NextBid]_vars

NextOpen ==
  \E p \in Procs :
    \/ handleOpenWithCache(p)
    \/ sendMTX(p)
    \/ add(p)

SpecOpen == Init /\ [][NextOpen]_vars

(***************************************************************************)
(* handleClearKeyFromCache: DELETE /cache/:cacheName/:cacheKey, for the    *)
(* bid cache.  The requests of one client come one after the other.        *)
(***************************************************************************)
MaxClears == 1

\* A clearCache that drops the whole cache.
clearCacheAll(c, k) == Nothing

\* wallet.clearCache(cacheName, cacheKey): the entry of the key is dropped.
clearCache(c, k) == [j \in DOMAIN c \ {k} |-> c[j]]

\* The handler clears the key in the cache of every wallet and responds `ok`.
handleClearKeyFromCache ==
  /\ http.count < MaxClears
  /\ \E k \in Keys :
       /\ sendBidResults' = clearCache(sendBidResults, k)
       /\ http' = [stage |-> "responded", cacheKey |-> k, count |-> http.count + 1]
  /\ UNCHANGED <<wallet, openCache, inflight, ret, raced, txdb, planner, maker,
                 sendResults, auction>>

\* No key has been cleared.
InitClear ==
  /\ InitWallet /\ InitCache /\ CachedTXDB /\ bdb = EmptyStore /\ NoCall /\ NoRequest
  /\ NoNames
  /\ http = [stage |-> "none", cacheKey |-> 0, count |-> 0]
  /\ sendResults = {}

NextClear ==
  \/ handleClearKeyFromCache
  \/ handleBatchBid(1)
  \/ createBid(1)
  \/ sendMTX(1)
  \/ add(1)

SpecClear == InitClear /\ [][NextClear]_vars

(***************************************************************************)
(* CachedTXDB: the in-memory index over the persisted credits, and the     *)
(* CachedBatch that records the changes of the index while the bdb batch   *)
(* it proxies collects the changes of the store.                           *)
(***************************************************************************)

\* The index as one value: what a reader of the two maps sees.
Index == [credits |-> cachedCredits, byAddress |-> cachedCoinsByAddress]

\* CachedBatch.insertCredit(credit, accountId) on the ops o: two ops are pushed.
insertCredit(o, c, v, a) ==
  o \o << [type |-> "PutCredit", coin |-> c, credit |-> v],
          [type |-> "PutCoinByAddress", coin |-> c, account |-> a] >>

\* CachedBatch.removeCredit(credit, accountId) on the ops o: two ops are pushed.
batchRemoveCredit(o, c, a) ==
  o \o << [type |-> "DelCredit", coin |-> c],
          [type |-> "DelCoinByAddress", coin |-> c, account |-> a] >>

\* One case of the switch of CachedBatch.write, on the index x.
applyOp(x, o) ==
  CASE o.type = "PutCredit" ->
         [x EXCEPT !.credits[o.coin] = o.credit]
    [] o.type = "PutCoinByAddress" ->
         [x EXCEPT !.byAddress[o.account] = @ \cup {o.coin}]
    [] o.type = "DelCredit" ->
         [x EXCEPT !.credits[o.coin] = "none"]
    [] o.type = "DelCoinByAddress" ->
         [x EXCEPT !.byAddress[o.account] = @ \ {o.coin}]

\* A loop that stops after the first op.
applyFirst(x, o) == IF o = <<>> THEN x ELSE applyOp(x, Head(o))

\* `for (const op of this.ops)` of CachedBatch.write, on the index x.
RECURSIVE applyOps(_, _)
applyOps(x, o) == IF o = <<>> THEN x ELSE applyOps(applyOp(x, Head(o)), Tail(o))

\* bdbBatch.write() that succeeds: the puts and dels of the batch reach the store.
RECURSIVE commit(_, _)
commit(s, w) ==
  IF w = <<>> THEN s
  ELSE commit([s EXCEPT ![Head(w).coin] = Head(w).credit], Tail(w))

\* CachedTXDB.newBatch(), for a write of the wallet.
newBatch(b) ==
  /\ b # 0 /\ opening = "opened"
  /\ batch[b].st \in {"none", "done", "failed"}
  /\ batch' = [batch EXCEPT ![b] = [NewBatch EXCEPT !.st = "open"]]
  /\ UNCHANGED <<nodb, bdb, cachedCredits, cachedCoinsByAddress, opening, allCredits>>

\* A batch takes the changes of at most this many credits.
Full(b) == Len(batch[b].ops) >= 2 * NumCoins

\* saveCredit that writes the maps at once.
saveCreditNow(b, c, v) ==
  /\ batch[b].st = "open" /\ ~Full(b)
  /\ batch' = [batch EXCEPT ![b].puts = Append(@, [coin |-> c, credit |-> v])]
  /\ cachedCredits' = [cachedCredits EXCEPT ![c] = v]
  /\ cachedCoinsByAddress' = [cachedCoinsByAddress EXCEPT ![getPath(c).account] = @ \cup {c}]
  /\ UNCHANGED <<nodb, bdb, opening, allCredits>>

\* CachedTXDB.saveCredit(b, credit, path): b.insertCredit, then TXDB.saveCredit puts the credit.
saveCredit(b, c, v) ==
  /\ batch[b].st = "open" /\ ~Full(b)
  /\ batch' = [batch EXCEPT ![b].ops = insertCredit(@, c, v, getPath(c).account),
                            ![b].puts = Append(@, [coin |-> c, credit |-> v])]
  /\ UNCHANGED <<nodb, bdb, cachedCredits, cachedCoinsByAddress, opening, allCredits>>

\* CachedTXDB.removeCredit(b, credit, path), of a credit read from the index.
removeCredit(b, c) ==
  /\ batch[b].st = "open" /\ ~Full(b)
  /\ cachedCredits[c] # "none"
  /\ batch' = [batch EXCEPT ![b].ops = batchRemoveCredit(@, c, getPath(c).account),
                            ![b].puts = Append(@, [coin |-> c, credit |-> "none"])]
  /\ UNCHANGED <<nodb, bdb, cachedCredits, cachedCoinsByAddress, opening, allCredits>>

(***************************************************************************)
(* CachedBatch.write: `await this.bdbBatch.write()`, which commits the     *)
(* store or throws, and then the loop over the ops, which runs without an  *)
(* await.                                                                  *)
(***************************************************************************)
write(b) ==
  \/ /\ batch[b].st = "open"
     /\ batch' = [batch EXCEPT ![b].st = "writing"]
     /\ UNCHANGED <<nodb, bdb, cachedCredits, cachedCoinsByAddress, opening, allCredits>>
  \/ /\ batch[b].st = "writing"
     /\ bdb' = commit(bdb, batch[b].puts)
     /\ batch' = [batch EXCEPT ![b].st = "committed"]
     /\ UNCHANGED <<nodb, cachedCredits, cachedCoinsByAddress, opening, allCredits>>
  \/ /\ batch[b].st = "writing"
     /\ batch' = [batch EXCEPT ![b].st = "failed"]
     /\ UNCHANGED <<nodb, bdb, cachedCredits, cachedCoinsByAddress, opening, allCredits>>
  \/ /\ batch[b].st = "committed"
     /\ cachedCredits' = applyOps(Index, batch[b].ops).credits
     /\ cachedCoinsByAddress' = applyOps(Index, batch[b].ops).byAddress
     /\ batch' = [batch EXCEPT ![b].st = "done"]
     /\ UNCHANGED <<nodb, bdb, opening, allCredits>>

\* super.getCredits(-1): the coins that have a credit in the store.
getAllCredits == {c \in Coins : bdb[c] # "none"}

\* b.insertCredit(credit, (await this.getPath(credit.coin)).account) for each credit of s.
RECURSIVE loadOps(_)
loadOps(s) ==
  IF s = {} THEN <<>>
  ELSE LET c == CHOOSE x \in s : \A y \in s : x <= y
       IN  insertCredit(<<>>, c, bdb[c], getPath(c).account) \o loadOps(s \ {c})

(***************************************************************************)
(* CachedTXDB.open with _loadCredits: super.open, then the credits are     *)
(* read and put into a batch, and _loadCredits returns once it has called  *)
(* b.write(), whose promise nobody awaits.                                 *)
(***************************************************************************)
open ==
  \/ /\ opening = "closed"
     /\ opening' = "super"
     /\ UNCHANGED <<nodb, bdb, cachedCredits, cachedCoinsByAddress, batch, allCredits>>
  \/ /\ opening = "super"
     /\ opening' = "loading"
     /\ allCredits' = getAllCredits
     /\ UNCHANGED <<nodb, bdb, cachedCredits, cachedCoinsByAddress, batch>>
  \/ /\ opening = "loading"
     /\ opening' = "loaded"
     /\ batch' = [batch EXCEPT ![0] = [st |-> "writing", ops |-> loadOps(allCredits), puts |-> <<>>]]
     /\ UNCHANGED <<nodb, bdb, cachedCredits, cachedCoinsByAddress, allCredits>>
  \/ /\ opening = "loaded"
     /\ opening' = "opened"
     /\ UNCHANGED <<nodb, bdb, cachedCredits, cachedCoinsByAddress, batch, allCredits>>

\* The stores a wallet can be opened on.
Stored == [Coins -> {"none"} \cup Credit]

InitDB ==
  /\ InitWallet /\ InitCache /\ CachedTXDB /\ bdb \in Stored /\ NoCall /\ NoRequest
  /\ NoRest

NextDB ==
  \/ open
  \/ \E b \in Batches :
       \/ newBatch(b)
       \/ \E c \in Coins : \/ \E v \in Credit : saveCredit(b, c, v)
                           \/ removeCredit(b, c)
       \/ write(b)

SpecDB == InitDB /\ [][NextDB]_vars

(***************************************************************************)
(* util.createBatch and util.createStrictBatch: a limit and a Map from a   *)
(* domain to its outputs, of which only the number of outputs matters.     *)
(***************************************************************************)

\* The names of the domains.
Domains == 1..NumDomains

\* [name, outputs]: an entry of the Map, with the length of its outputs array.
Entries == [name : Domains, outputs : 0..MaxOutputs]

\* The Maps: their entries in insertion order, no name twice.
Maps ==
  UNION {{m \in [1..n -> Entries] : \A i, j \in 1..n : i # j => m[i].name # m[j].name} :
         n \in 0..NumDomains}

\* Entry e put into the ascending run s, behind the entries that are not longer than e.
insert(s, e) ==
  LET k == Cardinality({i \in 1..Len(s) : s[i].outputs <= e.outputs})
  IN  SubSeq(s, 1, k) \o <<e>> \o SubSeq(s, k + 1, Len(s))

\* An insertion sort that moves an entry to the left of each longer entry before it.
RECURSIVE ascending(_)
ascending(m) ==
  IF m = <<>> THEN <<>>
  ELSE insert(ascending(SubSeq(m, 1, Len(m) - 1)), m[Len(m)])

(***************************************************************************)
(* entriesArray.sort((elem1, elem2) => elem1[1].length > elem2[1].length): *)
(* the comparator answers true or false, so it never says that elem1 goes  *)
(* first, and the order is the engine's choice. A merge sort that takes    *)
(* "not negative" for "in order" leaves the array as it is; an insertion   *)
(* sort that moves on "positive" sorts it from the shortest to the longest.*)
(***************************************************************************)
sort(m) == {m, ascending(m)}

\* The state of the loop before the first entry.
NoDomains == [validDomains |-> <<>>, rejectedDomains |-> <<>>, totalNumberOfOutputs |-> 0]

\* A createBatch that takes a domain whole or not at all.
batchStepWhole(acc, e, lim) ==
  IF acc.totalNumberOfOutputs + e.outputs > lim
    THEN [acc EXCEPT !.rejectedDomains = Append(@, [name |-> e.name, bidCount |-> e.outputs])]
    ELSE [acc EXCEPT !.totalNumberOfOutputs = @ + e.outputs,
                     !.validDomains = Append(@, [name |-> e.name, bidCount |-> e.outputs])]

\* The body of the loop of createBatch, for the entry e.
batchStep(acc, e, lim) ==
  IF acc.totalNumberOfOutputs + e.outputs > lim
    THEN LET availableSpots == lim - acc.totalNumberOfOutputs
         IN  IF availableSpots > 0
               THEN [acc EXCEPT
                       !.totalNumberOfOutputs = @ + availableSpots,
                       !.validDomains = Append(@, [name |-> e.name, bidCount |-> availableSpots]),
                       !.rejectedDomains =
                          Append(@, [name |-> e.name, bidCount |-> e.outputs - availableSpots])]
               ELSE [acc EXCEPT
                       !.rejectedDomains = Append(@, [name |-> e.name, bidCount |-> e.outputs])]
    ELSE [acc EXCEPT !.totalNumberOfOutputs = @ + e.outputs,
                     !.validDomains = Append(@, [name |-> e.name, bidCount |-> e.outputs])]

\* A createStrictBatch that gives the remaining slots to a domain that does not fit.
strictStepPartial(acc, e, lim) ==
  IF acc.totalNumberOfOutputs + e.outputs > lim /\ lim > acc.totalNumberOfOutputs
    THEN [acc EXCEPT
            !.validDomains =
               Append(@, [name |-> e.name, bidCount |-> lim - acc.totalNumberOfOutputs]),
            !.totalNumberOfOutputs = lim]
    ELSE batchStepWhole(acc, e, lim)

\* The body of the loop of createStrictBatch, for the entry e.
strictStep(acc, e, lim) ==
  IF acc.totalNumberOfOutputs + e.outputs > lim
    THEN [acc EXCEPT !.rejectedDomains = Append(@, [name |-> e.name, bidCount |-> e.outputs])]
    ELSE [acc EXCEPT !.totalNumberOfOutputs = @ + e.outputs,
                     !.validDomains = Append(@, [name |-> e.name, bidCount |-> e.outputs])]

\* `for (const [name, outputs] of entriesArray)` of createBatch.
RECURSIVE batchLoop(_, _, _)
batchLoop(acc, e, lim) ==
  IF e = <<>> THEN acc ELSE batchLoop(batchStep(acc, Head(e), lim), Tail(e), lim)

\* `for (const [name, outputs] of entriesArray)` of createStrictBatch.
RECURSIVE strictLoop(_, _, _)
strictLoop(acc, e, lim) ==
  IF e = <<>> THEN acc ELSE strictLoop(strictStep(acc, Head(e), lim), Tail(e), lim)

\* What a call returns, or the Error it throws, with the order the entries were taken in.
Returned(fn, e, acc) ==
  [fn |-> fn, error |-> "none", entriesArray |-> e,
   validDomains |-> acc.validDomains, rejectedDomains |-> acc.rejectedDomains]

Thrown(fn, msg) ==
  [fn |-> fn, error |-> msg, entriesArray |-> <<>>,
   validDomains |-> <<>>, rejectedDomains |-> <<>>]

\* util.createBatch(limit, domainOutputMap)
createBatch ==
  /\ out.fn = "none"
  /\ \/ /\ limit = 0
        /\ out' = Thrown("createBatch", "invalid limit provided!")
     \/ /\ limit # 0
        /\ \E e \in sort(domainOutputMap) :
             out' = Returned("createBatch", e, batchLoop(NoDomains, e, limit))
  /\ UNCHANGED <<noplanner, limit, domainOutputMap>>

\* util.createStrictBatch(limit, domainOutputMap)
createStrictBatch ==
  /\ out.fn = "none"
  /\ \/ /\ limit = 0
        /\ out' = Thrown("createStrictBatch", "invalid limit provided!")
     \/ /\ limit # 0
        /\ \E e \in sort(domainOutputMap) :
             out' = Returned("createStrictBatch", e, strictLoop(NoDomains, e, limit))
  /\ UNCHANGED <<noplanner, limit, domainOutputMap>>

\* A call with any limit and any Map within the bounds.
InitBatch ==
  /\ InitWallet /\ InitCache /\ CachedTXDB /\ bdb = EmptyStore
  /\ limit \in 0..MaxLimit
  /\ domainOutputMap \in Maps
  /\ out = [fn |-> "none"]
  /\ NoRequest
  /\ NoRest

NextBatch == createBatch \/ createStrictBatch

SpecBatch == InitBatch /\ [][NextBatch]_vars

(***************************************************************************)
(* The batch requests of the Wallet: makeBatchOpen, makeBatchBid,          *)
(* makeBatchReveal, makeBatchFinish and makeBatchRenewal build one MTX     *)
(* from the items of a request and a list of the items that failed; the    *)
(* _createBatch... function of the kind funds the MTX, and the _sendBatch  *)
(* function or the HTTP handler hands it to sendMTX.                       *)
(*                                                                         *)
(* An item is [name, yield]: yield is the number of outputs that           *)
(* processing the name gives (processBid, processNameForReveal, ...), and  *)
(* -1 when processing the name throws or a check of makeBatchOpen fails.   *)
(* An MTX is the list of [name, outputs]: how many outputs each name has   *)
(* in it. An error entry is [name, error]; makeBatchFinish and             *)
(* makeBatchRenewal call the second field errorMessage.                    *)
(***************************************************************************)
MAX_REVEALS_PER_BATCH_TX == 200

MAX_FINISH_COUNT == 200

Kinds == {"open", "bid", "reveal", "finish", "renewal"}

\* Numbers of outputs of one name, around the limit and its half.
Sizes ==
  {0, 1, MAX_REVEALS_PER_BATCH_TX \div 2, MAX_REVEALS_PER_BATCH_TX \div 2 + 1,
   MAX_REVEALS_PER_BATCH_TX, MAX_REVEALS_PER_BATCH_TX + 1}

\* What processing a name can give: one output for an open, a bid or a renewal, the
\* reveals of the bids of a name (maybe none), the redeems and the register of a name.
Yields(k) ==
  CASE k = "reveal" -> {-1} \cup Sizes
    [] k = "finish" -> {-1} \cup (Sizes \ {0})
    [] OTHER -> {-1, 1}

\* The requests of kind k: one to NumDomains items, no name twice.
Items(k) ==
  UNION {{m \in [1..n -> [name : Domains, yield : Yields(k)]] :
            \A i, j \in 1..n : i # j => m[i].name # m[j].name} : n \in 1..NumDomains}

\* mtx.outputs.push(output) for each item of s; the output of a bid that came with an
\* idempotency key carries the key.
Pushed(s) ==
  [i \in 1..Len(s) |->
     IF "idempotencyKey" \in DOMAIN s[i]
       THEN [name |-> s[i].name, outputs |-> s[i].yield, idempotencyKey |-> s[i].idempotencyKey]
       ELSE [name |-> s[i].name, outputs |-> s[i].yield]]

\* No item is reported.
ReportedNone(s, why) == <<>>

\* errorMessages.push({name, error}) for each item of s.
Reported(s, why) == [i \in 1..Len(s) |-> [name |-> s[i].name, error |-> why]]

\* `return { mtx, errorMessages }`
Made(m, e) == [mtx |-> m, errorMessages |-> e, thrown |-> "none", isAllError |-> FALSE]

\* `throw new Error(msg)`
Throw(msg) == [mtx |-> <<>>, errorMessages |-> <<>>, thrown |-> msg, isAllError |-> FALSE]

Fails(e) == e.yield = -1

Passes(e) == e.yield # -1

\* makeBatchOpen(names, acct)
makeBatchOpen(items) ==
  LET errorMessages == Reported(SelectSeq(items, Fails), "invalid")
  IN  {[Made(Pushed(SelectSeq(items, Passes)), errorMessages)
          EXCEPT !.isAllError = (Len(items) = Len(errorMessages))]}

\* makeBatchBid(bids, acct)
makeBatchBid(items) ==
  LET errorMessages == Reported(SelectSeq(items, Fails), "invalid")
  IN  IF Len(items) = 1 /\ Len(errorMessages) = 1
        THEN {Throw(errorMessages[1].error)}
        ELSE {Made(Pushed(SelectSeq(items, Passes)), errorMessages)}

\* makeBatchRenewal(names, acct)
makeBatchRenewal(items) ==
  {Made(Pushed(SelectSeq(items, Passes)), Reported(SelectSeq(items, Fails), "invalid"))}

\* The outputs that createStrictBatch accepted, and the domains it rejected.
Accepted(l) == [i \in 1..Len(l) |-> [name |-> l[i].name, outputs |-> l[i].bidCount]]

Rejected(l) == [i \in 1..Len(l) |-> [name |-> l[i].name, error |-> "exceeding"]]

\* A makeBatchReveal that puts the reveals of every name into the MTX.
revealAll(errorMessages, e) == Made(e, errorMessages)

\* makeBatchReveal from createStrictBatch on: e is outputMap in the order its sort left.
reveal(errorMessages, e) ==
  LET r == strictLoop(NoDomains, e, MAX_REVEALS_PER_BATCH_TX)
  IN  Made(Accepted(r.validDomains), errorMessages \o Rejected(r.rejectedDomains))

\* makeBatchReveal(names, acct)
makeBatchReveal(items) ==
  LET errorMessages == Reported(SelectSeq(items, LAMBDA e : e.yield <= 0), "invalid")
      found == SelectSeq(items, LAMBDA e : e.yield > 0)
      outputMap == [i \in 1..Len(found) |-> [name |-> found[i].name, outputs |-> found[i].yield]]
  IN  IF Len(items) = 1 /\ Len(errorMessages) = 1 THEN {Throw(errorMessages[1].error)}
      ELSE IF outputMap = <<>> THEN {Throw("Invalid (Batch) Reveal Request")}
      ELSE {reveal(errorMessages, e) : e \in sort(outputMap)}

\* A makeBatchFinish that fills the slots left with a part of a name's outputs.
finishStepPartial(acc, e) ==
  IF Fails(e) \/ acc.currentLength >= MAX_FINISH_COUNT
    THEN [acc EXCEPT !.errorMessages = Append(@, [name |-> e.name, error |-> "invalid"])]
    ELSE LET n == IF acc.currentLength + e.yield > MAX_FINISH_COUNT
                    THEN MAX_FINISH_COUNT - acc.currentLength ELSE e.yield
         IN  [acc EXCEPT !.currentLength = @ + n,
                         !.mtx = Append(@, [name |-> e.name, outputs |-> n])]

\* The body of the loop of makeBatchFinish, for the item e.
finishStep(acc, e) ==
  IF Fails(e)
    THEN [acc EXCEPT !.errorMessages = Append(@, [name |-> e.name, error |-> "invalid"])]
    ELSE IF acc.currentLength + e.yield > MAX_FINISH_COUNT
      THEN [acc EXCEPT !.errorMessages = Append(@, [name |-> e.name, error |-> "no slots"])]
      ELSE [acc EXCEPT !.currentLength = @ + e.yield,
                       !.mtx = Append(@, [name |-> e.name, outputs |-> e.yield])]

RECURSIVE finishLoop(_, _)
finishLoop(acc, items) ==
  IF items = <<>> THEN acc ELSE finishLoop(finishStep(acc, Head(items)), Tail(items))

\* makeBatchFinish(names, acct)
makeBatchFinish(items) ==
  LET r == finishLoop([mtx |-> <<>>, errorMessages |-> <<>>, currentLength |-> 0], items)
  IN  IF r.mtx = <<>> THEN {Throw("No reveals to redeem or register!")}
      ELSE {Made(r.mtx, r.errorMessages)}

\* The make function of kind k.
makeBatch(k, items) ==
  CASE k = "open" -> makeBatchOpen(items)
    [] k = "bid" -> makeBatchBid(items)
    [] k = "reveal" -> makeBatchReveal(items)
    [] k = "finish" -> makeBatchFinish(items)
    [] k = "renewal" -> makeBatchRenewal(items)

\* `await this.makeBatch...(names, acct)` of a request of kind k.
make(k) ==
  /\ request.kind = k /\ job.stage = "new"
  /\ \E r \in makeBatch(k, request.items) :
       job' = [stage |-> IF r.thrown = "none" THEN "made" ELSE "thrown",
               mtx |-> r.mtx, errorMessages |-> r.errorMessages,
               thrown |-> r.thrown, isAllError |-> r.isAllError]
  /\ UNCHANGED <<nomaker, request>>

\* `assert(mtx.isSane(), 'TX failed sanity check.')` of finalize: the names of a reveal,
\* a finish or a renewal bring their outpoints as inputs, and a transaction with the
\* same outpoint twice is not sane.
isSane(k, m) ==
  \/ k \in {"open", "bid"}
  \/ \A i, j \in 1..Len(m) : i # j => m[i].name # m[j].name

(***************************************************************************)
(* _createBatchOpen, _createBid, _createBatchReveal, _createBatchFinish,   *)
(* _createBatchRenewal after the make function has returned: only          *)
(* _createBatchOpen looks at the result (isAllError) before                *)
(* `await this.fill(mtx, options)`, which funds the MTX or throws.         *)
(***************************************************************************)
fillBatch ==
  /\ job.stage = "made"
  /\ \/ /\ request.kind = "open" /\ job.isAllError
        /\ job' = [job EXCEPT !.stage = "allError"]
     \/ /\ ~(request.kind = "open" /\ job.isAllError)
        /\ \E s \in IF isSane(request.kind, job.mtx) THEN {"funded", "unfunded"}
                                                     ELSE {"insane", "unfunded"} :
             job' = [job EXCEPT !.stage = s]
  /\ UNCHANGED <<nomaker, request>>

\* _sendBatch... and the handlers: checkAbort where there is one, then sendMTX signs and broadcasts.
sendBatch ==
  /\ job.stage = "funded"
  /\ \E s \in {"sent", "aborted"} : job' = [job EXCEPT !.stage = s]
  /\ UNCHANGED <<nomaker, request>>

\* A request of any kind, with any items within the bounds.
InitMake ==
  /\ InitWallet /\ InitCache /\ CachedTXDB /\ bdb = EmptyStore /\ NoCall
  /\ \E k \in Kinds : \E m \in Items(k) : request = [kind |-> k, items |-> m]
  /\ job = NewJob
  /\ NoRest

NextMake ==
  \/ \E k \in Kinds : make(k)
  \/ fillBatch
  \/ sendBatch

SpecMake == InitMake /\ [][NextMake]_vars

\* The longest request that may repeat a name or a key.
MaxRepeats == 2

\* The requests of kind k that may list a name more than once: the names an open or a
\* finish request lists, the bids of a bid request with their idempotency keys.  A
\* name has one state, so what processing it gives is the same each time it is listed.
Repeats(k) ==
  UNION {{m \in [1..n -> IF k = "bid"
                          THEN [name : Domains, yield : Yields(k), idempotencyKey : Keys]
                          ELSE [name : Domains, yield : Yields(k)]] :
            k # "bid" => \A i, j \in 1..n : m[i].name = m[j].name => m[i].yield = m[j].yield} :
         n \in 1..MaxRepeats}

\* A batch open, bid or finish request with none of its keys or names in a cache: the
\* handlers pass the list on as it came (handleBatchOpen), or without the entries the
\* cache has (uniqueBids, uniqueNames), and drop no repeated entry.
InitRepeat ==
  /\ InitWallet /\ InitCache /\ CachedTXDB /\ bdb = EmptyStore /\ NoCall
  /\ \E k \in {"open", "bid", "finish"} : \E m \in Repeats(k) :
       request = [kind |-> k, items |-> m]
  /\ job = NewJob
  /\ NoRest

SpecRepeat == InitRepeat /\ [][NextMake]_vars

(***************************************************************************)
(* The caching batch handlers: handleBatchRevealWithCache over             *)
(* sendRevealResults and handleBatchFinish over sendFinishResults.  The    *)
(* handler answers the names the cache has from the cache, hands the rest  *)
(* (uniqueNames) to createBatchReveal / createBatchFinish, sends the MTX   *)
(* and stores the REVEAL, or REDEEM and REGISTER, outputs of the           *)
(* transaction in the cache under the name that nameHashMap gives for the  *)
(* name hash of the output.                                                *)
(*                                                                         *)
(* A cache is the set of its entries [key, items]; items is the number of  *)
(* processed outputs of the array stored under the key.                    *)
(***************************************************************************)
MaxRequests == 2

CachedKinds == {"reveal", "finish"}

nohandler == <<wallet, cache, txdb, planner, auction>>

\* rules.hashName(name), as the hex string that the JSON of an output carries.
hashName(n) == NumDomains + n

\* cache.has(key)
has(cch, key) == \E e \in cch : e.key = key

\* cache.get(key): the array stored under the key.
get(cch, key) == (CHOOSE e \in cch : e.key = key).items

\* util.retrieveFromCache: the keys the cache does not have, in the order of the request.
cacheMisses(cch, items) == SelectSeq(items, LAMBDA e : ~has(cch, e.name))

\* The names among uniqueNames whose hash is h.
nameHashMap(unique, h) == {unique[i].name : i \in {j \in 1..Len(unique) : hashName(unique[j].name) = h}}

\* The outputs of the transaction that carry a name: those of each entry of the MTX,
\* with the name hash of their covenant.
txJSON(m) == [i \in 1..Len(m) |-> [nameHash |-> hashName(m[i].name), outputs |-> m[i].outputs]]

\* A handler that stores nothing.
storeNothing(cch, key, n) == cch

\* util.storeMultipleInCache, and the insert of util.postProcessBatchFinishes, for
\* the n outputs of one name: push onto the array of the key, or set a new array.
storeMultipleInCache(cch, key, n) ==
  IF has(cch, key)
    THEN {IF e.key = key THEN [e EXCEPT !.items = @ + n] ELSE e : e \in cch}
    ELSE cch \cup {[key |-> key, items |-> n]}

\* The forEach over the outputs of the transaction.
RECURSIVE postProcessOutputs(_, _, _)
postProcessOutputs(cch, outputs, unique) ==
  IF outputs = <<>> THEN cch
  ELSE LET o == Head(outputs)
           names == nameHashMap(unique, o.nameHash)
           stored == IF o.outputs = 0 \/ names = {} THEN cch
                     ELSE storeMultipleInCache(cch, CHOOSE n \in names : TRUE, o.outputs)
       IN  postProcessOutputs(stored, Tail(outputs), unique)

\* The handler of kind k up to createBatchReveal / createBatchFinish: answer from
\* the cache when it has every name, else build a transaction for the misses.
retrieve(k) ==
  /\ http.stage = "arrived" /\ http.kind = k
  /\ LET uniqueNames == cacheMisses(sendResults, http.items)
     IN  IF uniqueNames = <<>>
           THEN /\ http' = [http EXCEPT !.stage = "responded", !.uniqueNames = <<>>]
                /\ UNCHANGED <<request, job>>
           ELSE /\ http' = [http EXCEPT !.stage = "building", !.uniqueNames = uniqueNames]
                /\ request' = [kind |-> k, items |-> uniqueNames]
                /\ job' = NewJob
  /\ UNCHANGED <<nohandler, sendResults>>

\* After sendMTX: store the outputs of the transaction and respond.
postProcess ==
  /\ http.stage = "building" /\ job.stage = "sent"
  /\ sendResults' = postProcessOutputs(sendResults, txJSON(job.mtx), http.uniqueNames)
  /\ http' = [http EXCEPT !.stage = "responded"]
  /\ UNCHANGED <<nohandler, maker>>

\* createBatchReveal / createBatchFinish or sendMTX has thrown: the handler throws.
failed ==
  /\ http.stage = "building" /\ job.stage \in {"thrown", "unfunded", "insane", "aborted"}
  /\ http' = [http EXCEPT !.stage = "failed"]
  /\ UNCHANGED <<nohandler, maker, sendResults>>

\* The client asks again, for any of the names of its request.
again ==
  /\ http.stage \in {"responded", "failed"} /\ http.round < MaxRequests
  /\ \E keep \in (SUBSET (1..Len(http.asked))) \ {{}} :
       http' = [http EXCEPT !.stage = "arrived", !.round = @ + 1, !.uniqueNames = <<>>,
                            !.items = SelectSeq(http.asked, LAMBDA e :
                                        \E i \in keep : http.asked[i] = e)]
  /\ UNCHANGED <<nohandler, maker, sendResults>>

\* A first request of either kind, with any items within the bounds; the caches are empty.
InitCached ==
  /\ InitWallet /\ InitCache /\ CachedTXDB /\ bdb = EmptyStore /\ NoCall /\ NoRequest
  /\ \E k \in CachedKinds : \E m \in Items(k) :
       http = [stage |-> "arrived", kind |-> k, asked |-> m, items |-> m,
               uniqueNames |-> <<>>, round |-> 1]
  /\ sendResults = {}
  /\ NoNames

NextCached ==
  \/ \E k \in CachedKinds : retrieve(k)
  \/ \E k \in CachedKinds : make(k)
  \/ fillBatch
  \/ sendBatch
  \/ postProcess
  \/ failed
  \/ again

SpecCached == InitCached /\ [][NextCached]_vars

\* A later request for the names of the first one, when the wallet has come to own
\* other bids or reveals of them (yield 1: one that no transaction of the wallet has
\* spent, as after a later auction of the name) or has none (yield -1).
later ==
  /\ http.stage \in {"responded", "failed"} /\ http.round < MaxRequests
  /\ \E y \in [1..Len(http.asked) -> {-1, 1}] :
       LET m == [i \in 1..Len(http.asked) |-> [name |-> http.asked[i].name, yield |-> y[i]]]
       IN  http' = [http EXCEPT !.stage = "arrived", !.round = @ + 1, !.uniqueNames = <<>>,
                                !.asked = m, !.items = m]
  /\ UNCHANGED <<nohandler, maker, sendResults>>

NextLater ==
  \/ \E k \in CachedKinds : retrieve(k)
  \/ \E k \in CachedKinds : make(k)
  \/ fillBatch
  \/ sendBatch
  \/ postProcess
  \/ failed
  \/ later

SpecLater == InitCached /\ [][NextLater]_vars

(***************************************************************************)
(* The name actions of the Wallet, for one name.  The wallet looks at the  *)
(* name at height wdb.height + 1: at the NameState it has of the name (or, *)
(* for an OPEN or a BID, at the one wdb.getNameStatus gives), at its       *)
(* credits that carry the name, and at the BlindStore.  A builder gives    *)
(* the outputs of its MTX, each with the outpoint it spends (0: none), or  *)
(* throws.                                                                 *)
(*                                                                         *)
(* The credit of outpoint c has value c and address c; the blind of the    *)
(* BID at address a with bid value v is <<a, v>>.  The receive addresses   *)
(* of the account are the numbers above NumCoins.                          *)
(***************************************************************************)
MaxHeight == 2

MaxBids == 3

Heights == 0..MaxHeight

\* The states of a name, in the order of their numbers.
states == <<"OPENING", "BIDDING", "REVEAL", "CLOSED", "REVOKED">>

\* states.X as a number.
ord(s) == CHOOSE i \in 1..Len(states) : states[i] = s

\* The name states of a running auction and of a closed one; owner 0 is the null outpoint.
NameStates ==
  [state : {"OPENING", "BIDDING", "REVEAL"}, height : Heights,
   owner : {0}, value : {0}, expired : {FALSE}]
  \cup
  [state : {"CLOSED", "REVOKED"}, height : Heights,
   owner : 0..NumCoins, value : 0..NumCoins, expired : BOOLEAN]

\* NameState.reset(height): the state of a name nobody has opened.
reset(h) == [state |-> "OPENING", height |-> h, owner |-> 0, value |-> 0, expired |-> FALSE]

\* ns.maybeExpire(height, network)
maybeExpire(n, h) == IF n.expired THEN reset(h) ELSE n

\* The wallet has no NameState of the name.
NoName == [state |-> "NONE"]

\* `let ns = await this.getNameState(nameHash); if (!ns) ns = await this.wdb.getNameStatus(nameHash);`
getNameStatus == IF ns # NoName THEN ns ELSE status

\* What rules.verifyName, isReserved, isLockedUp and hasRollout say of the name of a call.
Rules == {"ok", "Invalid name", "Name is reserved", "Name is locked up", "Name not yet available"}

Output(type, prevout, value, address) ==
  [type |-> type, prevout |-> prevout, value |-> value, address |-> address]

\* The builder returns an MTX with the outputs o.
Ok(fn, o) == [fn |-> fn, outs |-> o, errors |-> <<>>, thrown |-> "none"]

\* The builder throws.
Err(fn, msg) == [fn |-> fn, outs |-> <<>>, errors |-> <<>>, thrown |-> msg]

\* this.txdb.isCovenantDoubleOpen(covenant): the wallet has recorded an OPEN of the name.
isCovenantDoubleOpen ==
  \E tx \in wtxs : \E i \in 1..Len(tx) : tx[i].type = "OPEN"

\* An OPEN that does not look at the height of the name state.
makeOpenAnyStart(rule) ==
  LET n == maybeExpire(getNameStatus, wdbHeight + 1)
  IN  IF rule # "ok" THEN Err("open", rule)
      ELSE IF n.state # "OPENING" THEN Err("open", "Name is not available")
      ELSE IF isCovenantDoubleOpen THEN Err("open", "Already sent an open")
      ELSE Ok("open", <<Output("OPEN", 0, 0, receive)>>)

\* makeBatchOpen for the one name, as _createOpen calls it: the check that fails throws.
makeOpen(rule) ==
  LET height == wdbHeight + 1
      n == maybeExpire(getNameStatus, height)
      start == n.height
  IN  IF rule # "ok" THEN Err("open", rule)
      ELSE IF n.state # "OPENING" THEN Err("open", "Name is not available")
      ELSE IF start # 0 /\ start # height THEN Err("open", "Name is already opening")
      ELSE IF isCovenantDoubleOpen THEN Err("open", "Already sent an open")
      ELSE Ok("open", <<Output("OPEN", 0, 0, receive)>>)

\* The bids of a call: one to MaxBids bids on the name.
Bids == UNION {[1..n -> [value : 1..2, lockup : 1..2]] : n \in 1..MaxBids}

\* A processBid that takes any bid while the name is BIDDING.
processBidAnyValue(rule, bid) ==
  LET n == maybeExpire(getNameStatus, wdbHeight + 1)
  IN  IF rule # "ok" THEN rule
      ELSE IF n.state = "OPENING" THEN "Name has not reached the bidding phase yet"
      ELSE IF n.state # "BIDDING" THEN "Name is not available"
      ELSE "none"

\* The checks of processBid: the error it throws, "none" when it goes on to build the output.
processBid(rule, bid) ==
  LET n == maybeExpire(getNameStatus, wdbHeight + 1)
  IN  IF rule # "ok" THEN rule
      ELSE IF n.state = "OPENING" THEN "Name has not reached the bidding phase yet"
      ELSE IF n.state # "BIDDING" THEN "Name is not available"
      ELSE IF bid.value > bid.lockup THEN "Bid exceeds lockup value"
      ELSE "none"

\* A makeBatchBid that sends every bid to the current receive address.
bidAddressCurrent(consecutiveCall, depth) == depth

\* `!consecutiveCall ? await this.receiveAddress(acct) : (await this.createReceive(acct)).getAddress()`
bidAddress(consecutiveCall, depth) == IF ~consecutiveCall THEN depth ELSE depth + 1

\* The loop of makeBatchBid: acc is the MTX, the errors, consecutiveCall, the receive
\* depth of the account and the blinds that generateBlind has saved.
RECURSIVE bidLoop(_, _, _)
bidLoop(acc, rule, bids) ==
  IF bids = <<>> THEN acc
  ELSE LET bid == Head(bids)
           error == processBid(rule, bid)
           addr == bidAddress(acc.consecutiveCall, acc.depth)
           blind == <<addr, bid.value>>
           next == IF error # "none"
                     THEN [acc EXCEPT !.errors = Append(@, error)]
                     ELSE [acc EXCEPT !.outs = Append(@, [type |-> "BID", prevout |-> 0,
                                                          value |-> bid.lockup,
                                                          address |-> addr, blind |-> blind]),
                                      !.consecutiveCall = TRUE,
                                      !.depth = addr,
                                      !.blinds = @ \cup {blind}]
       IN  bidLoop(next, rule, Tail(bids))

\* makeBatchBid(bids, acct)
makeBids(rule, bids) ==
  bidLoop([outs |-> <<>>, errors |-> <<>>, consecutiveCall |-> FALSE,
           depth |-> receive, blinds |-> blinds], rule, bids)

\* The credits of the name in outpoint order, as txdb.getBids / getReveals lists them.
Prevouts == [c \in 1..NumCoins |-> c]

\* this.ownCredit(hash, index): the wallet has a credit for the outpoint.
ownCredit(c) == c \in Coins /\ nameCredits[c].own

\* this.getUnspentCoin(hash, index): `if (!credit || credit.spent) return null`
getUnspentCoin(c) == ownCredit(c) /\ ~nameCredits[c].spent

\* A check that lets every coin pass.
isLocalAlways(c, n) == TRUE

\* "Is local?": `coin.height < ns.height` turns the coin away.
isLocal(c, n) == nameCredits[c].height >= n.height

\* A BlindStore that finds every blind.
getBlindAny(blind) == TRUE

\* this.getBlind(blind): the BlindStore has the value and the nonce of the blind.
getBlind(blind) == blind \in blinds

\* The blind of the BID of outpoint c: that of its address and its bid value.
blindOf(c) == <<c, c>>

\* The own, unspent, local credits of the name whose covenant is t.
Spendable(t, n) ==
  SelectSeq(Prevouts, LAMBDA c : /\ nameCredits[c].covenant = t
                                 /\ getUnspentCoin(c)
                                 /\ isLocal(c, n))

\* The REVEAL outputs of the BID credits l.
Reveals(l) == [i \in 1..Len(l) |-> Output("REVEAL", l[i], l[i], l[i])]

\* processNameForReveal(domainName, acct), with the `No bids to reveal` of makeBatchReveal
\* and the rethrow of a batch of one name: createReveal(name).
processNameForReveal(rule) ==
  LET n == maybeExpire(ns, wdbHeight + 1)
      bids == Spendable("BID", n)
  IN  IF rule = "Invalid name" THEN Err("reveal", rule)
      ELSE IF ns = NoName THEN Err("reveal", "Auction not found")
      ELSE IF ord(n.state) < ord("REVEAL") THEN Err("reveal", "Cannot reveal yet")
      ELSE IF ord(n.state) > ord("REVEAL") THEN Err("reveal", "Reveal period has passed")
      ELSE IF \E i \in 1..Len(bids) : ~getBlind(blindOf(bids[i]))
        THEN Err("reveal", "Blind value not found")
      ELSE IF bids = <<>> THEN Err("reveal", "No bids to reveal")
      ELSE Ok("reveal", Reveals(bids))

\* makeRevealAll(): a bid whose name is not in its reveal period is passed over.
makeRevealAll ==
  LET n == maybeExpire(ns, wdbHeight + 1)
      bids == IF ns = NoName \/ n.state # "REVEAL" THEN <<>> ELSE Spendable("BID", n)
  IN  IF \E i \in 1..Len(bids) : ~getBlind(blindOf(bids[i]))
        THEN Err("revealAll", "Blind value not found.")
      ELSE IF bids = <<>> THEN Err("revealAll", "No bids to reveal.")
      ELSE Ok("revealAll", Reveals(bids))

\* A wallet that lets the winner redeem.
isOwnerNever(c, n) == FALSE

\* prevout.equals(ns.owner)
isOwner(c, n) == c = n.owner

\* The REDEEM outputs of the REVEAL credits l.
Redeems(l) == [i \in 1..Len(l) |-> Output("REDEEM", l[i], l[i], l[i])]

\* makeRedeem(name, acct); makeRedeemAll makes the same checks for each reveal.
makeRedeem(rule) ==
  LET reveals == SelectSeq(Spendable("REVEAL", ns), LAMBDA c : ~isOwner(c, ns))
  IN  IF rule = "Invalid name" THEN Err("redeem", rule)
      ELSE IF ns = NoName THEN Err("redeem", "Auction not found")
      ELSE IF ns.expired THEN Err("redeem", "Name has expired")
      ELSE IF ord(ns.state) < ord("CLOSED") THEN Err("redeem", "Auction is not yet closed")
      ELSE IF reveals = <<>> THEN Err("redeem", "No reveals to redeem")
      ELSE Ok("redeem", Redeems(reveals))

\* A REGISTER that pays the winner's own bid.
registerValueOwn(c, n) == c

\* `output.value = ns.value`: the value of the REGISTER that spends the reveal c.
registerValue(c, n) == n.value

\* processNameForFinish(name, resource, acct), as createBatchFinish calls it for one name:
\* REDEEM for each reveal of the wallet, REGISTER for the reveal that owns the name.
processNameForFinish(rule) ==
  LET reveals == Spendable("REVEAL", ns)
  IN  IF rule = "Invalid name" THEN Err("finish", rule)
      ELSE IF ns = NoName THEN Err("finish", "Auction not found")
      ELSE IF ns.expired THEN Err("finish", "Name has expired")
      ELSE IF ord(ns.state) < ord("CLOSED") THEN Err("finish", "Auction is not yet closed")
      ELSE IF reveals = <<>> THEN Err("finish", "No reveals to redeem or register")
      ELSE Ok("finish", [i \in 1..Len(reveals) |->
                 IF isOwner(reveals[i], ns)
                   THEN Output("REGISTER", reveals[i], registerValue(reveals[i], ns), reveals[i])
                   ELSE Output("REDEEM", reveals[i], reveals[i], reveals[i])])

\* The covenants a credit of the name can carry.
Covenants == {"BID", "REVEAL", "REGISTER", "UPDATE", "RENEW", "TRANSFER", "FINALIZE"}

\* _makeRegister(name, resource), which makeUpdate calls when the owner is a reveal.
makeRegister ==
  LET c == ns.owner
  IN  IF ~ownCredit(c) THEN Err("update", "Wallet did not win the auction")
      ELSE IF nameCredits[c].spent THEN Err("update", "Credit is already pending")
      ELSE IF ns.expired THEN Err("update", "Name has expired")
      ELSE IF ~isLocal(c, ns) THEN Err("update", "Wallet did not win the auction")
      ELSE IF nameCredits[c].covenant # "REVEAL"
        THEN Err("update", "Name must be in REVEAL or CLAIM state")
      ELSE IF ns.state # "CLOSED" THEN Err("update", "Auction is not yet closed")
      ELSE Ok("update", <<Output("REGISTER", c, registerValue(c, ns), c)>>)

\* The covenant of the output of an owner action, and the covenants of the owner it accepts.
Owned ==
  [update |-> [type |-> "UPDATE", from |-> {"REGISTER", "UPDATE", "RENEW", "FINALIZE"}],
   renew |-> [type |-> "RENEW", from |-> {"REGISTER", "UPDATE", "RENEW", "FINALIZE"}],
   transfer |-> [type |-> "TRANSFER", from |-> {"REGISTER", "UPDATE", "RENEW", "FINALIZE"}],
   finalize |-> [type |-> "FINALIZE", from |-> {"TRANSFER"}],
   revoke |-> [type |-> "REVOKE",
               from |-> {"REGISTER", "UPDATE", "RENEW", "TRANSFER", "FINALIZE"}]]

\* An owner action that takes the owner whatever its covenant.
isCovenantAny(k, t) == TRUE

\* `coin.covenant.isRegister() || ... isFinalize()`: the owner action k takes an owner of covenant t.
isCovenant(k, t) == t \in Owned[k].from

\* network.names.transferLockup, in blocks.
transferLockup == 1

\* A finalize that does not wait.
isLockedUpNever(c) == FALSE

\* `height < coin.height + network.names.transferLockup`
isLockedUp(c) == wdbHeight + 1 < nameCredits[c].height + transferLockup

\* makeUpdate, processRenewal, makeTransfer, makeFinalize, makeRevoke: each reads the
\* credit of ns.owner and throws when it is spent; wait is the outcome of the check of
\* the renewal period.
makeOwned(k, rule, wait) ==
  LET c == ns.owner
  IN  IF rule = "Invalid name" THEN Err(k, rule)
      ELSE IF ns = NoName THEN Err(k, "Auction not found")
      ELSE IF ~ownCredit(c) THEN Err(k, "Wallet does not own")
      ELSE IF nameCredits[c].spent THEN Err(k, "Credit is already pending")
      ELSE IF k = "update" /\ nameCredits[c].covenant = "REVEAL" THEN makeRegister
      ELSE IF ns.expired THEN Err(k, "Name has expired")
      ELSE IF ~isLocal(c, ns) THEN Err(k, "Wallet does not own")
      ELSE IF ns.state # "CLOSED" THEN Err(k, "Auction is not yet closed")
      ELSE IF ~isCovenant(k, nameCredits[c].covenant) THEN Err(k, "Name must be registered")
      ELSE IF k = "renew" /\ wait THEN Err(k, "Must wait")
      ELSE IF k = "finalize" /\ isLockedUp(c) THEN Err(k, "Transfer is still locked up")
      ELSE Ok(k, <<Output(Owned[k].type, c, c, c)>>)

\* makeCancel(name, acct): it reads the coin of ns.owner with getCoin, which gives
\* the coin of a credit whether the credit is spent or not.
makeCancel(rule) ==
  LET c == ns.owner
  IN  IF rule = "Invalid name" THEN Err("cancel", rule)
      ELSE IF ns = NoName THEN Err("cancel", "Auction not found")
      ELSE IF ~ownCredit(c) THEN Err("cancel", "Wallet does not own")
      ELSE IF ns.expired THEN Err("cancel", "Name has expired")
      ELSE IF ~isLocal(c, ns) THEN Err("cancel", "Wallet does not own")
      ELSE IF ns.state # "CLOSED" THEN Err("cancel", "Auction is not yet closed")
      ELSE IF nameCredits[c].covenant # "TRANSFER" THEN Err("cancel", "Name is not being transfered")
      ELSE Ok("cancel", <<Output("UPDATE", c, c, c)>>)

\* Every other variable but those of the name actions and the recorded transactions.
noauction ==
  <<pc, op, asked, req, got, mtx, aborted, early, sent, err, lk, credits, mempool, wrote,
    cache, txdb, planner, maker, handler>>

world == <<wdbHeight, ns, status, nameCredits, blinds, receive>>

\* No builder call is under way.
Idle == built.fn = "none"

\* What verifyName says of the name of a call that makes no other check of the rules.
Named == {"ok", "Invalid name"}

\* createOpen(name)
createOpen ==
  /\ Idle
  /\ \E rule \in Rules : built' = makeOpen(rule)
  /\ UNCHANGED <<noauction, wtxs, world>>

\* createBatchBid(bids), and createBid(name, value, lockup) for a single bid: the blinds
\* are saved and the addresses derived whether the MTX is sent or not.
createBatchBid ==
  /\ Idle
  /\ \E rule \in Rules : \E bids \in Bids :
       LET r == makeBids(rule, bids)
       IN  /\ r.depth <= NumCoins + MaxBids
           /\ built' = IF Len(bids) = 1 /\ Len(r.errors) = 1
                         THEN Err("bid", r.errors[1])
                         ELSE [fn |-> "bid", outs |-> r.outs, errors |-> r.errors,
                               thrown |-> "none"]
           /\ receive' = r.depth
           /\ blinds' = r.blinds
  /\ UNCHANGED <<noauction, wtxs, wdbHeight, ns, status, nameCredits>>

\* createAuctionTxs(name, value, lockup): the bid, and the reveal of the bid built in
\* advance; the outpoint of the bid is NumCoins + 1.  The fill of the reveal throws
\* when the bid does not pay for it.
createAuctionTxs ==
  /\ Idle
  /\ \E rule \in Rules : \E b \in [value : 1..2, lockup : 1..2] : \E funded \in BOOLEAN :
       LET r == makeBids(rule, <<b>>)
           bid == r.outs[1]
       IN  /\ built' = IF Len(r.errors) = 1 THEN Err("auction", r.errors[1])
                       ELSE IF bid.blind \notin r.blinds
                         THEN Err("auction", "Blind value not found.")
                       ELSE IF ~funded
                         THEN Err("auction", "Pre-signed REVEAL must not require additional inputs")
                       ELSE Ok("auction", <<bid, Output("REVEAL", NumCoins + 1, b.value, bid.address)>>)
           /\ receive' = r.depth
           /\ blinds' = r.blinds
  /\ UNCHANGED <<noauction, wtxs, wdbHeight, ns, status, nameCredits>>

\* createReveal(name)
createReveal ==
  /\ Idle
  /\ \E rule \in Named : built' = processNameForReveal(rule)
  /\ UNCHANGED <<noauction, wtxs, world>>

\* createRevealAll()
createRevealAll ==
  /\ Idle
  /\ built' = makeRevealAll
  /\ UNCHANGED <<noauction, wtxs, world>>

\* createRedeem(name)
createRedeem ==
  /\ Idle
  /\ \E rule \in Named : built' = makeRedeem(rule)
  /\ UNCHANGED <<noauction, wtxs, world>>

\* createBatchFinish of the one name
createBatchFinish ==
  /\ Idle
  /\ \E rule \in Named : built' = processNameForFinish(rule)
  /\ UNCHANGED <<noauction, wtxs, world>>

\* createUpdate, createRenewal, createTransfer, createFinalize, createRevoke
createOwned ==
  /\ Idle
  /\ \E k \in DOMAIN Owned : \E rule \in Named : \E wait \in BOOLEAN :
       built' = makeOwned(k, rule, wait)
  /\ UNCHANGED <<noauction, wtxs, world>>

\* createCancel(name)
createCancel ==
  /\ Idle
  /\ \E rule \in Named : built' = makeCancel(rule)
  /\ UNCHANGED <<noauction, wtxs, world>>

\* sendMTX of the MTX built, for an open or an MTX that spends credits of the name:
\* the wallet records the transaction, and the credits it spends are spent.
sendBuilt ==
  /\ built.fn \notin {"none", "bid", "auction"}
  /\ built.thrown = "none"
  /\ wtxs' = wtxs \cup {built.outs}
  /\ nameCredits' = [c \in Coins |->
       IF \E i \in 1..Len(built.outs) : built.outs[i].prevout = c
         THEN [nameCredits[c] EXCEPT !.spent = TRUE] ELSE nameCredits[c]]
  /\ built' = [fn |-> "none"]
  /\ UNCHANGED <<noauction, wdbHeight, ns, status, blinds, receive>>

\* The caller has its answer: the error thrown, or an MTX that it does not send here.
answered ==
  /\ ~Idle
  /\ built' = [fn |-> "none"]
  /\ UNCHANGED <<noauction, wtxs, world>>

\* The credits of the name: all of one covenant, none spent yet; a credit that is not
\* the wallet's own is a bid or a reveal of somebody else.
Credits(t) ==
  [covenant : {t}, height : 1..MaxHeight,
   own : IF t \in {"BID", "REVEAL"} THEN BOOLEAN ELSE {TRUE}, spent : {FALSE}]

\* The wallet at height MaxHeight - 1, with any name state, credits and blinds.
InitNames ==
  /\ InitWallet /\ InitCache /\ CachedTXDB /\ bdb = EmptyStore /\ NoCall /\ NoRequest
  /\ NoHandler
  /\ wdbHeight = MaxHeight - 1
  /\ ns \in NameStates \cup {NoName}
  /\ status \in IF ns = NoName
                  THEN {n \in NameStates : n.owner = 0 /\ n.value = 0 /\ ~n.expired}
                  ELSE {NoName}
  /\ \E t \in Covenants :
       /\ nameCredits \in [Coins -> Credits(t)]
       /\ blinds \in IF t = "BID" THEN SUBSET {blindOf(c) : c \in Coins} ELSE {{}}
  /\ receive = NumCoins + 1
  /\ built = [fn |-> "none"]

NextNames ==
  \/ createOpen
  \/ createAuctionTxs
  \/ createReveal
  \/ createRevealAll
  \/ createRedeem
  \/ createBatchFinish
  \/ createOwned
  \/ createCancel
  \/ sendBuilt
  \/ answered

SpecNames == InitNames /\ [][NextNames]_vars

\* A wallet with no credit of the name yet, and any name state.
InitBids ==
  /\ InitWallet /\ InitCache /\ CachedTXDB /\ bdb = EmptyStore /\ NoCall /\ NoRequest
  /\ NoHandler
  /\ wdbHeight = MaxHeight - 1
  /\ ns \in NameStates \cup {NoName}
  /\ status \in IF ns = NoName
                  THEN {n \in NameStates : n.owner = 0 /\ n.value = 0 /\ ~n.expired}
                  ELSE {NoName}
  /\ nameCredits = [c \in Coins |-> [covenant |-> "BID", height |-> MaxHeight,
                                      own |-> FALSE, spent |-> FALSE]]
  /\ blinds = {}
  /\ receive = NumCoins + 1
  /\ built = [fn |-> "none"]

NextBids ==
  \/ createBatchBid
  \/ createAuctionTxs
  \/ answered

SpecBids == InitBids /\ [][NextBids]_vars

(***************************************************************************)
(* OPEN requests for the one name, interleaved.  handleBatchOpen builds    *)
(* the MTX in createBatchOpen, under fundLock, and calls sendMTX when the  *)
(* lock is free again; sendOpen builds and sends under fundLock.  The MTX  *)
(* of a request is its list of outputs.                                    *)
(***************************************************************************)
Openers == {"handleBatchOpen", "sendOpen"}

\* Every variable the OPEN requests leave alone.
noopen ==
  <<asked, req, got, aborted, early, credits, wrote, cache, txdb, planner, maker, handler,
    auction>>

\* wdb.addTX(tx) of an OPEN of the wallet: the wallet does not take a second OPEN of
\* the name, and addTX returns null.
addTX(txs, tx) == IF isCovenantDoubleOpen THEN txs ELSE txs \cup {tx}

\* The request reaches the handler, which calls createBatchOpen or sendOpen:
\* `const unlock = await this.fundLock.lock()`.
openRequest(p, o) ==
  /\ pc[p] = "idle" /\ op[p] = "none"
  /\ pc' = [pc EXCEPT ![p] = "fundLock"]
  /\ op' = [op EXCEPT ![p] = o]
  /\ lk' = Acquire(lk, p, "fund")
  /\ UNCHANGED <<mtx, err, sent, wtxs, mempool, noopen>>

\* The holder of fundLock builds the MTX: makeBatchOpen, fill and finalize.  The
\* request whose name is rejected is answered with the error; createBatchOpen
\* unlocks when it returns, sendOpen after sendMTX.
openCreate(p) ==
  /\ pc[p] = "fundLock" /\ Holds(p, "fund")
  /\ \E rule \in Rules :
       LET r == makeOpen(rule)
       IN  IF r.thrown # "none"
             THEN /\ err' = [err EXCEPT ![p] = r.thrown]
                  /\ pc' = [pc EXCEPT ![p] = "idle"]
                  /\ lk' = Release(lk, p, "fund")
                  /\ UNCHANGED mtx
             ELSE /\ mtx' = [mtx EXCEPT ![p] = r.outs]
                  /\ pc' = [pc EXCEPT ![p] = "sendMTX"]
                  /\ lk' = IF op[p] = "handleBatchOpen" THEN Release(lk, p, "fund") ELSE lk
                  /\ UNCHANGED err
  /\ UNCHANGED <<op, sent, wtxs, mempool, noopen>>

\* sendMTX(mtx, passphrase): `await this.wdb.addTX(tx)`, whose result is not looked
\* at, then `await this.wdb.send(tx)`; the request is answered with the transaction.
openSend(p) ==
  /\ pc[p] = "sendMTX"
  /\ wtxs' = addTX(wtxs, mtx[p])
  /\ mempool' = mempool \cup {[by |-> p, outs |-> mtx[p]]}
  /\ sent' = [sent EXCEPT ![p] = "sent"]
  /\ pc' = [pc EXCEPT ![p] = "idle"]
  /\ lk' = IF Holds(p, "fund") THEN Release(lk, p, "fund") ELSE lk
  /\ UNCHANGED <<op, mtx, err, noopen>>

\* A wallet with no transaction yet, and any name state.
InitOpens == InitBids

NextOpens ==
  \E p \in Procs :
    \/ \E o \in Openers : openRequest(p, o)
    \/ openCreate(p)
    \/ openSend(p)

SpecOpens == InitOpens /\ [][NextOpens]_vars

(***************************************************************************)
(* Properties of the locks.                                                *)
(***************************************************************************)

\* C1: whoever holds both locks took fundLock first and writeLock second.
C1_FundBeforeWrite ==
  \A p \in Procs :
    Holds(p, "fund") /\ Holds(p, "write") => lk.held[p] = <<"fund", "write">>

\* C2: no two callers each hold one of the two locks and wait for the other.
C2_NoCircularWait ==
  \A p, q \in Procs :
    ~(/\ Holds(p, "fund") /\ Waits(p, "write")
      /\ Holds(q, "write") /\ Waits(q, "fund"))

(***************************************************************************)
(* Properties of the sending calls.                                        *)
(***************************************************************************)

\* C3: any two transactions the sending calls have produced spend disjoint sets of coins.
C3_DisjointInputs ==
  \A t, u \in wtxs : t # u => t.ins \cap u.ins = {}

\* Two calls of different requests have each produced a transaction while another call waits for fundLock.
C3_Witness ==
  /\ \E t, u \in wtxs : t.by # u.by
  /\ \E p \in Procs : op[p] \in SendOps /\ Waits(p, "fund")

C10_WritesUnderWriteLock == wrote.store # "none" => wrote.write

(***************************************************************************)
(* Properties of the builders and of the idempotency caches.               *)
(***************************************************************************)

\* p has selected the inputs of an MTX of its own that sendMTX has not recorded yet.
Selected(p) ==
  pc[p] # "idle" /\ mtx[p].by = {p} /\ mtx[p].ins # {} /\ sent[p] = "no"

\* C4: two overlapping builders never both have the same coin selected and not yet recorded.
C4_NoOverlappingSelection ==
  \A p, q \in Procs :
    p # q /\ Selected(p) /\ Selected(q) => mtx[p].ins \cap mtx[q].ins = {}

\* C5: once a result has been returned for key k, and as long as the requests
\* for k have not overlapped, every request returns that same result for k and
\* no request builds a bid for k.
C5_SequentialReplay ==
  [][\A k \in Keys :
       k \in DOMAIN ret /\ ~raced'[k] =>
         /\ ret'[k] = ret[k]
         /\ \A p \in Procs : k \notin req'[p] /\ k \notin mtx'[p].keys]_vars

\* A request that arrived after a result was returned for its key is answering from the cache.
C5_Witness ==
  \E p \in Procs : \E k \in DOMAIN got[p] :
    pc[p] = "resp" /\ ~raced[k] /\ k \in DOMAIN ret /\ Response(p)[k] = ret[k]

\* C6: at most one transaction is built and broadcast for one key.
C6_OneTransactionPerKey ==
  \A t, u \in mempool : t # u => t.keys \cap u.keys = {}

\* C7: when no request for a key is in flight, the cache holds an entry for
\* the key only if the transaction of the entry has been broadcast.
C7_EntryOnlyAfterBroadcast ==
  \A k \in DOMAIN openCache :
    \/ \E p \in Procs : pc[p] # "idle" /\ k \in asked[p]
    \/ toTX(openCache[k]) \in mempool

\* C8: a request that found all its keys in the cache records and broadcasts nothing.
C8_ReplayBroadcastsNothing ==
  \A p \in Procs :
    pc[p] # "idle" /\ asked[p] # {} /\ asked[p] \subseteq DOMAIN got[p] => sent[p] = "no"

(***************************************************************************)
(* Properties of the credit index.                                         *)
(***************************************************************************)

\* getCredit(hash, index), read from the index.
getCredit(c) == cachedCredits[c]

\* hasCoinByAccount(acct, hash, index), read from the index.
hasCoinByAccount(a, c) == c \in cachedCoinsByAddress[a]

C12_LoadedWhenOpen ==
  opening = "opened" /\ batch[1].st = "none" =>
    \A c \in getAllCredits :
      getCredit(c) = bdb[c] /\ hasCoinByAccount(getPath(c).account, c)

\* The last op of o, among those of the given types, on coin c (under account a); 0 if none.
LastOp(o, c, a, types) ==
  LET ks == {i \in 1..Len(o) : /\ o[i].type \in types
                               /\ o[i].coin = c
                               /\ ("account" \in DOMAIN o[i] => o[i].account = a)}
  IN  IF ks = {} THEN 0 ELSE CHOOSE i \in ks : \A j \in ks : j <= i

\* Index y is index x with every op of o applied: for each entry the last op on it decides.
Reflects(o, x, y) ==
  /\ \A c \in Coins :
       LET i == LastOp(o, c, 0, {"PutCredit", "DelCredit"})
       IN  y.credits[c] = IF i = 0 THEN x.credits[c]
                          ELSE IF o[i].type = "PutCredit" THEN o[i].credit ELSE "none"
  /\ \A a \in Accounts : \A c \in Coins :
       LET i == LastOp(o, c, a, {"PutCoinByAddress", "DelCoinByAddress"})
       IN  c \in y.byAddress[a] <=> IF i = 0 THEN c \in x.byAddress[a]
                                    ELSE o[i].type = "PutCoinByAddress"

\* C13: between two await points the index takes none or all of the ops of a
\* batch: a step leaves the index alone, or it is the loop of one committed
\* batch and the index then has every op of that batch applied.
C13_AllOrNothing ==
  [][\/ Index' = Index
     \/ \E b \in Batches :
          batch[b].st = "committed" /\ Reflects(batch[b].ops, Index, Index')]_vars

\* A batch that changes two credits has been written, and the index has its last changes.
C13_Witness ==
  \E b \in Batches :
    /\ batch[b].st = "done" /\ Len(batch[b].ops) = 2 * NumCoins
    /\ batch[b].ops[1].coin # batch[b].ops[3].coin
    /\ Reflects(batch[b].ops, Index, Index)

(***************************************************************************)
(* Properties of createBatch and createStrictBatch.                        *)
(***************************************************************************)

\* The sum of the bidCounts of the entries of list l that bear name n.
RECURSIVE BidCount(_, _)
BidCount(l, n) ==
  IF l = <<>> THEN 0
  ELSE (IF Head(l).name = n THEN Head(l).bidCount ELSE 0) + BidCount(Tail(l), n)

\* The number of entries of list l that bear name n.
Listed(l, n) == Cardinality({i \in 1..Len(l) : l[i].name = n})

\* The sum of the bidCounts of list l.
RECURSIVE Sum(_)
Sum(l) == IF l = <<>> THEN 0 ELSE Head(l).bidCount + Sum(Tail(l))

\* The number of outputs of the whole Map m.
RECURSIVE Total(_)
Total(m) == IF m = <<>> THEN 0 ELSE Head(m).outputs + Total(Tail(m))

\* C14: for every limit of at least 1 and every Map, createStrictBatch returns,
\* lists each domain exactly once, in validDomains with a bidCount equal to
\* the number of its outputs or else in rejectedDomains, and the bidCounts of
\* validDomains sum to at most the limit.
C14_StrictWholeDomains ==
  out.fn = "createStrictBatch" /\ limit >= 1 =>
    /\ out.error = "none"
    /\ \A i \in 1..Len(domainOutputMap) :
         LET d == domainOutputMap[i]
         IN  /\ Listed(out.validDomains, d.name) + Listed(out.rejectedDomains, d.name) = 1
             /\ Listed(out.validDomains, d.name) = 1 =>
                  BidCount(out.validDomains, d.name) = d.outputs
    /\ Sum(out.validDomains) <= limit

\* createStrictBatch has accepted a domain and rejected another one.
C14_Witness ==
  /\ out.fn = "createStrictBatch" /\ limit >= 1
  /\ out.validDomains # <<>> /\ out.rejectedDomains # <<>>
  /\ Sum(out.validDomains) > 0

\* C15: createBatch returns validDomains whose bidCounts sum to the smaller of
\* the limit and the number of all outputs, a domain that is accepted in part
\* gets exactly the slots that were left, and for every domain the accepted
\* and the rejected bidCount add up to the number of its outputs.
C15_PartialFill ==
  out.fn = "createBatch" /\ out.error = "none" =>
    /\ Sum(out.validDomains) =
         IF limit < Total(domainOutputMap) THEN limit ELSE Total(domainOutputMap)
    /\ \A j \in 1..Len(out.validDomains) :
         Listed(out.rejectedDomains, out.validDomains[j].name) > 0 =>
           out.validDomains[j].bidCount = limit - Sum(SubSeq(out.validDomains, 1, j - 1))
    /\ \A i \in 1..Len(domainOutputMap) :
         LET d == domainOutputMap[i]
         IN  BidCount(out.validDomains, d.name) + BidCount(out.rejectedDomains, d.name)
               = d.outputs

\* createBatch has accepted a part of a domain, after a domain it accepted whole.
C15_Witness ==
  /\ out.fn = "createBatch" /\ out.error = "none"
  /\ \E j \in 2..Len(out.validDomains) :
       Listed(out.rejectedDomains, out.validDomains[j].name) > 0

\* C16: both functions take the domains from the one with the most outputs
\* to the one with the fewest, whatever the insertion order of the Map.
C16_LargestFirst ==
  out.fn # "none" /\ out.error = "none" =>
    \A i, j \in 1..Len(out.entriesArray) :
      i < j => out.entriesArray[i].outputs >= out.entriesArray[j].outputs

(***************************************************************************)
(* Properties of the batch requests.                                       *)
(***************************************************************************)

\* The make function of the request has returned an MTX.
HasMTX == job.stage \in {"made", "funded", "unfunded", "sent", "aborted"}

\* The number of outputs that name n has in the MTX of the request.
Contributes(n) ==
  Total(SelectSeq(job.mtx, LAMBDA o : o.name = n))

\* The request reports name n in its error list.
InErrors(n) == \E i \in 1..Len(job.errorMessages) : job.errorMessages[i].name = n

\* C17: the MTX of a batch reveal has at most 200 REVEAL outputs.
C17_RevealLimit ==
  request.kind = "reveal" /\ HasMTX => Total(job.mtx) <= MAX_REVEALS_PER_BATCH_TX

\* A batch reveal has filled all 200 outputs and has turned a name away.
C17_Witness ==
  /\ request.kind = "reveal" /\ job.stage = "sent"
  /\ Total(job.mtx) = MAX_REVEALS_PER_BATCH_TX
  /\ \E i \in 1..Len(job.errorMessages) : job.errorMessages[i].error = "exceeding"

\* C18: in a batch finish every requested name has all of its REDEEM and
\* REGISTER outputs in the MTX, or it has none and is in the error list; the
\* MTX has at most 200 of these outputs.
C18_FinishWholeNames ==
  request.kind = "finish" /\ HasMTX =>
    /\ \A i \in 1..Len(request.items) :
         LET e == request.items[i]
         IN  \/ Passes(e) /\ Contributes(e.name) = e.yield /\ ~InErrors(e.name)
             \/ Contributes(e.name) = 0 /\ InErrors(e.name)
    /\ Total(job.mtx) <= MAX_FINISH_COUNT

\* A batch finish has taken a name whole and has turned away a name that did not fit.
C18_Witness ==
  /\ request.kind = "finish" /\ job.stage = "sent"
  /\ \E i, j \in 1..Len(request.items) :
       /\ Contributes(request.items[i].name) > 1
       /\ Passes(request.items[j]) /\ InErrors(request.items[j].name)

\* The request of the single item e fails as a whole.
FailsAlone(k, e) ==
  \A r \in makeBatch(k, <<e>>) : r.thrown # "none" \/ r.mtx = <<>>

C20_NothingWithoutOutput ==
  job.stage \in {"funded", "sent", "aborted"} => Total(job.mtx) > 0

(***************************************************************************)
(* Properties of the caching batch handlers.                               *)
(***************************************************************************)

\* The handler has responded to a request that built and sent a transaction.
Answered == http.stage = "responded" /\ http.uniqueNames # <<>>

\* C21: when a caching batch reveal or finish has sent its transaction, the cache
\* holds, for every name the request had to build, the outputs the name has in
\* the transaction, and holds no entry for a name the request reported as rejected.
C21_CacheHoldsWhatWasSent ==
  Answered =>
    \A i \in 1..Len(http.uniqueNames) :
      LET n == http.uniqueNames[i].name
      IN  /\ Contributes(n) > 0 => has(sendResults, n) /\ get(sendResults, n) = Contributes(n)
          /\ InErrors(n) => ~has(sendResults, n)

\* A request was answered in part: one name is in the cache, another was rejected.
C21_Witness ==
  /\ Answered
  /\ \E i, j \in 1..Len(http.uniqueNames) :
       /\ has(sendResults, http.uniqueNames[i].name)
       /\ InErrors(http.uniqueNames[j].name)

(***************************************************************************)
(* Properties of the name actions.                                         *)
(***************************************************************************)

\* The height of the next block.
NextHeight == wdbHeight + 1

\* The state of the name at the next block, as the open and the bid read it.
NameAtNext == maybeExpire(getNameStatus, NextHeight)

\* The outputs of covenant t in the MTX built.
OutputsOf(t) ==
  IF built.fn = "none" THEN {}
  ELSE {built.outs[i] : i \in {j \in 1..Len(built.outs) : built.outs[j].type = t}}

\* The call under way threw.
Threw == built.fn # "none" /\ built.thrown # "none"

\* C23: an OPEN output is built only when the state of the name at the next height h
\* (that of a name nobody has opened when there is no live NameState) is OPENING with
\* ns.height in {0, h}; in every other state createOpen throws and builds nothing.
C23_OpenOnlyWhenOpening ==
  built.fn = "open" =>
    IF NameAtNext.state = "OPENING" /\ NameAtNext.height \in {0, NextHeight}
      THEN TRUE
      ELSE Threw /\ OutputsOf("OPEN") = {}

\* An OPEN was built for a name whose wallet state is OPENING since the next height.
C23_Witness ==
  /\ OutputsOf("OPEN") # {}
  /\ ns # NoName /\ ns.state = "OPENING" /\ ns.height = NextHeight

\* C24: a BID output is built only when the state of the name at the next height is
\* BIDDING and the value of the bid is at most its lockup; in every other state no
\* BID is built, and a bid above its lockup gets an error in place of an output.
C24_BidOnlyWhenBidding ==
  built.fn \in {"bid", "auction"} =>
    /\ \A o \in OutputsOf("BID") : NameAtNext.state = "BIDDING" /\ o.blind[2] <= o.value
    /\ NameAtNext.state # "BIDDING" => OutputsOf("BID") = {} /\ (Threw \/ built.errors # <<>>)

\* A batch gave a BID for one bid and `Bid exceeds lockup value` for another.
C24_Witness ==
  /\ built.fn = "bid" /\ OutputsOf("BID") # {}
  /\ \E i \in 1..Len(built.errors) : built.errors[i] = "Bid exceeds lockup value"

\* C28: in the MTX of one batch of bids the first BID pays to the receive address the
\* account had when the call began, every later BID pays to an address derived after
\* that, and no two BIDs pay to the same address.
C28_BatchAddresses ==
  [][(built.fn = "none" /\ built'.fn = "bid" /\ built'.outs # <<>>) =>
       /\ built'.outs[1].address = receive
       /\ \A i \in 2..Len(built'.outs) : built'.outs[i].address > receive
       /\ \A i, j \in 1..Len(built'.outs) :
            i # j => built'.outs[i].address # built'.outs[j].address]_vars

\* A batch of three bids gave two BIDs and one error.
C28_Witness ==
  built.fn = "bid" /\ Len(built.outs) = 2 /\ Len(built.errors) = 1

\* The state of the wallet's NameState at the next block, as the reveal reads it.
OwnAtNext == maybeExpire(ns, NextHeight)

\* The outputs of the MTX built that spend a credit of the name.
SpendsCredit == {o \in UNION {OutputsOf(t) : t \in {"REVEAL", "REDEEM", "REGISTER", "UPDATE",
                                                     "RENEW", "TRANSFER", "FINALIZE", "REVOKE"}} :
                   o.prevout \in Coins}

\* C25: a REVEAL output that spends a BID credit of the wallet is built only when the
\* state of the name at the next height is REVEAL and the credit was confirmed at
\* ns.height or later.
C25_RevealOnlyInReveal ==
  \A o \in OutputsOf("REVEAL") :
    o.prevout \in Coins =>
      /\ nameCredits[o.prevout].covenant = "BID"
      /\ ns # NoName /\ OwnAtNext.state = "REVEAL"
      /\ nameCredits[o.prevout].height >= OwnAtNext.height

\* A reveal was built for one bid while another bid of the wallet, confirmed before
\* the auction began, was passed over.
C25_Witness ==
  /\ built.fn \in {"reveal", "revealAll"} /\ OutputsOf("REVEAL") # {}
  /\ \E c \in Coins : /\ nameCredits[c].own /\ nameCredits[c].covenant = "BID"
                      /\ nameCredits[c].height < ns.height
                      /\ \A o \in OutputsOf("REVEAL") : o.prevout # c

\* C26 as stated: a REDEEM output is built only when the state of the name is CLOSED
\* and the reveal it spends is not ns.owner.
C26_RedeemOnlyWhenClosed ==
  \A o \in OutputsOf("REDEEM") : ns.state = "CLOSED" /\ o.prevout # ns.owner

\* C26: a REDEEM output is built only when the state of the name is CLOSED or later
\* (CLOSED or REVOKED), the name has not expired, and the reveal it spends is not ns.owner.
C26_RedeemOnceClosed ==
  \A o \in OutputsOf("REDEEM") :
    /\ nameCredits[o.prevout].covenant = "REVEAL"
    /\ ns.state \in {"CLOSED", "REVOKED"} /\ ~ns.expired
    /\ o.prevout # ns.owner

\* The reveals of a name were finished: a REDEEM for the losing reveal while the
\* wallet also holds the reveal that owns the name.
C26_Witness ==
  /\ built.fn \in {"redeem", "finish"} /\ OutputsOf("REDEEM") # {}
  /\ getUnspentCoin(ns.owner) /\ nameCredits[ns.owner].height >= ns.height

C29_RegisterPaysNsValue ==
  \A o \in OutputsOf("REGISTER") : o.value = ns.value

\* A REGISTER was built for a reveal whose own value is not ns.value.
C29_Witness ==
  \E o \in OutputsOf("REGISTER") : nameCredits[o.prevout].covenant = "REVEAL" /\ o.prevout # ns.value

\* C30: no name action builds an MTX that spends a credit which a pending transaction
\* of the wallet has spent.
C30_NoSpentInput ==
  \A o \in SpendsCredit : ~nameCredits[o.prevout].spent

\* The same, of every builder but makeCancel.
OthersRejectSpent ==
  built.fn # "cancel" => C30_NoSpentInput

(***************************************************************************)
(* Properties of interleaved OPEN requests.                                *)
(***************************************************************************)

\* The requests that were answered with an OPEN transaction.
Opened == {p \in Procs : op[p] \in Openers /\ sent[p] = "sent"}

\* C22: of the OPEN requests for the name, however they interleave, at most one is
\* answered with a transaction, and at most one OPEN of the name is pending in the
\* wallet and handed to the mempool.
C22_OneOpenPending ==
  /\ Cardinality(Opened) <= 1
  /\ Cardinality(wtxs) <= 1
  /\ Cardinality(mempool) <= 1

\* The same, of requests that all go through sendOpen.
SendOpenIsExclusive ==
  (\A p \in Procs : op[p] # "handleBatchOpen") => C22_OneOpenPending

(***************************************************************************)
(* Properties of the owner actions.                                        *)
(***************************************************************************)

\* The covenant of the credit that output o spends.
Spent(o) == nameCredits[o.prevout].covenant

\* The covenants of a name that is registered and not in transfer.
Registered == {"REGISTER", "UPDATE", "RENEW", "FINALIZE"}

\* C31: an owner action is built only from an owner of a covenant the transition
\* relation allows: UPDATE (not the REGISTER built for a reveal), RENEW and TRANSFER
\* from REGISTER, UPDATE, RENEW or FINALIZE; CANCEL and FINALIZE from TRANSFER;
\* REVOKE from REGISTER, UPDATE, RENEW, TRANSFER or FINALIZE.
C31_CovenantTransitions ==
  built.fn \in {"update", "renew", "transfer", "finalize", "revoke", "cancel"} =>
    \A i \in 1..Len(built.outs) :
      LET o == built.outs[i]
      IN  /\ o.prevout = ns.owner
          /\ built.fn \in {"renew", "transfer"} => Spent(o) \in Registered
          /\ built.fn = "update" /\ o.type = "UPDATE" => Spent(o) \in Registered
          /\ built.fn = "update" /\ o.type # "UPDATE" => o.type = "REGISTER" /\ Spent(o) = "REVEAL"
          /\ built.fn \in {"cancel", "finalize"} => Spent(o) = "TRANSFER"
          /\ built.fn = "revoke" => Spent(o) \in Registered \cup {"TRANSFER"}

\* A TRANSFER was built for a name whose owner is the output of a FINALIZE.
C31_Witness ==
  /\ built.fn = "transfer" /\ built.outs # <<>>
  /\ Spent(built.outs[1]) = "FINALIZE"

\* The owner of the name is a TRANSFER credit of the wallet that a finalize can spend
\* once the lockup is over.
InTransfer ==
  /\ ns # NoName /\ ns.state = "CLOSED" /\ ~ns.expired
  /\ getUnspentCoin(ns.owner)
  /\ nameCredits[ns.owner].covenant = "TRANSFER"
  /\ nameCredits[ns.owner].height >= ns.height

\* C32: with the TRANSFER confirmed at height H, a FINALIZE is built only when the
\* next height h is at least H + transferLockup, and from h = H + transferLockup on
\* the finalize of a valid name is not turned away.
C32_FinalizeAfterLockup ==
  built.fn = "finalize" =>
    /\ built.outs # <<>> => NextHeight >= nameCredits[ns.owner].height + transferLockup
    /\ InTransfer /\ NextHeight < nameCredits[ns.owner].height + transferLockup => Threw
    /\ InTransfer /\ NextHeight >= nameCredits[ns.owner].height + transferLockup
         => built.thrown \in {"none", "Invalid name"}

\* A FINALIZE was built at the first height the lockup allows.
C32_Witness ==
  /\ built.fn = "finalize" /\ built.outs # <<>>
  /\ NextHeight = nameCredits[ns.owner].height + transferLockup

(***************************************************************************)
(* Properties of the cache administration.                                 *)
(***************************************************************************)

\* C33: clearing a key drops the entry of that key and no other; a request that
\* arrives is answered from the cache for each of its keys that has an entry, and
\* builds a bid for each key that has none, the cleared key among them.
C33_ClearDropsOneKey ==
  [][/\ http'.count # http.count =>
          /\ DOMAIN sendBidResults' = DOMAIN sendBidResults \ {http'.cacheKey}
          /\ \A j \in DOMAIN sendBidResults' : sendBidResults'[j] = sendBidResults[j]
     /\ \A p \in Procs :
          pc[p] = "idle" /\ op'[p] = "handleBatchBid" =>
            \A k \in asked'[p] :
              IF k \in DOMAIN sendBidResults
                THEN k \in DOMAIN got'[p] /\ got'[p][k] = sendBidResults[k] /\ k \notin req'[p]
                ELSE k \in req'[p] /\ k \notin DOMAIN got'[p]]_vars

\* A key was cleared and a second transaction was sent for it, while another key is
\* still answered with the one transaction that was ever sent for it.
C33_Witness ==
  /\ http.count = 1
  /\ Cardinality({t \in mempool : http.cacheKey \in t.keys}) = 2
  /\ \E j \in DOMAIN sendBidResults \ {http.cacheKey} :
       /\ Cardinality({t \in mempool : j \in t.keys}) = 1
       /\ j \in DOMAIN ret /\ ret[j] = sendBidResults[j]

(***************************************************************************)
(* Properties of sendMTX and of the locks.                                 *)
(***************************************************************************)

\* C34: when wdb.send of a call has failed, the wallet has no record of the
\* transaction of the call and no input of it is marked spent.
C34_StoredOnlyIfSent ==
  \A p \in Procs :
    pc[p] = "mtx_ret" /\ err[p] = "send" =>
      /\ toTX(mtx[p]) \notin wtxs
      /\ \A c \in mtx[p].ins : credits[c] = "unspent"

\* The locks of the wallet.
LockNames == {"fund", "write"}

\* Process p has lock n among the locks it acquired and has not released.
Acquired(p, n) == \E i \in 1..Len(lk.held[p]) : lk.held[p][i] = n

\* C35: a call that has returned or thrown holds no lock and waits for none, and at
\* every moment a lock is held by exactly the process that acquired it and has not
\* released it, once.
C35_LocksReleased ==
  \A p \in Procs : \A n \in LockNames :
    /\ pc[p] = "idle" => lk.held[p] = <<>> /\ ~Holds(p, n) /\ ~Waits(p, n)
    /\ Holds(p, n) <=> Acquired(p, n)
    /\ Cardinality({i \in 1..Len(lk.held[p]) : lk.held[p][i] = n}) <= 1

\* A call has thrown, and another call now holds the lock it had held.
C35_Witness ==
  \E p, q \in Procs :
    /\ p # q
    /\ pc[p] = "idle" /\ err[p] \in {"funds", "abort", "sign", "send"}
    /\ Holds(q, "fund")

(***************************************************************************)
(* Properties of batch requests that repeat a name or a key.               *)
(***************************************************************************)

\* C36: the MTX of a batch open has at most one OPEN output for a name, also when
\* the request lists the name more than once.
C36_OneOpenPerName ==
  request.kind = "open" /\ HasMTX =>
    \A i, j \in 1..Len(job.mtx) : i # j => job.mtx[i].name # job.mtx[j].name

\* C37: the MTX of a batch bid has at most one BID output for an idempotency key,
\* also when two bids of the request have the same key.
C37_OneBidPerKey ==
  request.kind = "bid" /\ HasMTX =>
    \A i, j \in 1..Len(job.mtx) :
      i # j => job.mtx[i].idempotencyKey # job.mtx[j].idempotencyKey

\* C40: a transaction built by a batch finish spends no outpoint twice, and a batch
\* finish does not fail as a whole because it lists a name more than once.
C40_FinishSpendsOnce ==
  request.kind = "finish" =>
    /\ job.stage \in {"funded", "sent", "aborted"} =>
         \A i, j \in 1..Len(job.mtx) : i # j => job.mtx[i].name # job.mtx[j].name
    /\ job.stage # "insane"

(***************************************************************************)
(* Properties of the name-keyed caches over time.                          *)
(***************************************************************************)

\* C38: a name of a batch reveal (or finish) request that has bids to reveal (or
\* reveals to redeem or register) which no transaction has spent is handed to
\* createBatchReveal (createBatchFinish), whether or not the cache has the name.
C38_HitHidesNothing ==
  http.stage \in {"building", "responded", "failed"} =>
    \A i \in 1..Len(http.items) :
      http.items[i].yield > 0 =>
        \E j \in 1..Len(http.uniqueNames) : http.uniqueNames[j].name = http.items[i].name

(***************************************************************************)
(* Properties of the index against the store.                              *)
(***************************************************************************)

\* The outpoints the by-outpoint map has a credit for.
ByOutpoint == {c \in Coins : cachedCredits[c] # "none"}

\* The outpoints the by-account map has under some account.
ByAccount == UNION {cachedCoinsByAddress[a] : a \in Accounts}

\* Every CachedBatch that was written has committed and has been applied.
Written == \A b \in Batches : batch[b].st \in {"none", "open", "done"}

\* C39: once the wallet is open and every CachedBatch written so far has
\* committed and been applied, the by-outpoint map and the by-account map hold
\* the same outpoints, and these are the outpoints of the credits in the store.
C39_IndexIsStore ==
  opening = "opened" /\ batch[0].st = "done" /\ Written =>
    ByOutpoint = ByAccount /\ ByOutpoint = getAllCredits

====
